---- MODULE Spec2Model ----
(***************************************************************************)
(* Bulk import/export engine: job creation with idempotency keys, the      *)
(* background import pipeline (parser goroutine -> validate -> normalize   *)
(* -> batch upsert -> orphan cleanup), the filtered export task, and the   *)
(* SQLite tables they share.                                               *)
(*                                                                         *)
(* Strings are drawn from a small universe; the string functions of the    *)
(* code (TrimSpace, ToLower, the regular expressions, time.Parse) are      *)
(* tabulated over that universe.  BatchSize and the channel capacities are *)
(* scaled down so that full, partial and multiple batches all occur.       *)
(***************************************************************************)
EXTENDS Integers, Sequences, FiniteSets, TLC

\* ------------------------------------------------------------------ bounds
\* creation requests (import + export) accepted in one run
MaxRequests == 2

\* creation requests accepted in one run of the fair specification
MaxLiveRequests == 1

\* records per batch write: imports/routers.go BatchSize is 2000; the model's
\* sources hold 3 or 4 records, so that they span a full and a partial batch
BatchSize == 2
\* rows per export page: exports BatchSize is 2000
ExportBatchSize == 2
\* rows between progress saves of an export: 10000 in the code, 5 pages;
\* 2 pages here
ProgressUpdateInterval == 4
\* capacity of a parser's records channel: 100 in the code
RecordsCap == 1
\* lines of an input handed to a parser on its own
MaxLines == 3

\* --------------------------------------------------------- program constants
\* imports/routers.go ProgressUpdateFrequency
ProgressUpdateFrequency == 1
\* parsers: errors := make(chan error, 1)
ErrorsCap == 1

JobStatusPending == "pending"
JobStatusProcessing == "processing"
JobStatusCompleted == "completed"
JobStatusFailed == "failed"
StatusDraft == "draft"
StatusPublished == "published"

\* ------------------------------------------------------------ string tables
\* the value time.Now() yields (one abstract instant)
Now == "now"
\* JSON null / absent pointer
Nil == "<nil>"
\* the JSON array with no element
EmptyArray == "<[]>"

\* t.Format(time.RFC3339): the layout has no fractional seconds, so the
\* instant of a time.Now() is cut to its whole second; the instants parsed
\* from RFC 3339 text are whole seconds already
FormatRFC3339(t) == IF t = Now THEN "t0" ELSE t

\* fmt.Sprintf("%t", b)
FormatBool(b) == IF b THEN "true" ELSE "false"

\* strings.TrimSpace over the universe: " " is the only padded string
TrimSpace(s) == IF s = " " THEN "" ELSE s

\* strings.ToLower over the universe
ToLower(s) ==
    CASE s = "A@X.IO" -> "a@x.io"
      [] s = "TRUE"   -> "true"
      [] s = "FALSE"  -> "false"
      [] OTHER        -> s

\* common.ValidateEmail: ^[a-zA-Z0-9._%+-]+@[a-zA-Z0-9.-]+\.[a-zA-Z]{2,}$
ValidateEmail(s) == s \in {"a@x.io", "b@x.io", "c@x.io", "A@X.IO"}

\* common.ValidateKebabCase: ^[a-z0-9]+(-[a-z0-9]+)*$
ValidateKebabCase(s) == s \in {"s1", "s2", "s3", "s4"}

\* time.Parse(time.RFC3339, s): the instants of the universe
IsRFC3339(s) == s \in {"t0", "t1", "t2"}

\* len(body) and common.CountWords(body) for the comment bodies of the universe
BodyLen(s) ==
    CASE s = ""      -> 0
      [] s = "hi"    -> 2
      [] s = "dense" -> 1201
      [] s = "long"  -> 4000
      [] s = "wide"  -> 3600
      [] OTHER       -> 5
CountWords(s) ==
    CASE s = ""      -> 0
      [] s = "hi"    -> 1
      [] s = "dense" -> 601
      [] s = "long"  -> 600
      [] s = "wide"  -> 400
      [] OTHER       -> 1

\* record[field] of a Go map: the zero value when the key is absent
Get(record, field) == IF field \in DOMAIN record THEN record[field] ELSE ""

\* getStringField: TrimSpace(fmt.Sprint(val)), "" when absent or nil
getStringField(record, field) ==
    IF field \in DOMAIN record /\ record[field] # Nil
    THEN TrimSpace(record[field]) ELSE ""

Range(s) == {s[i] : i \in 1..Len(s)}

\* ------------------------------------------------------------ source files
\* A CSV line is a row of field values or a malformed row; an NDJSON line is
\* a JSON object, an empty line, text that is not valid JSON, JSON that is no
\* object, or a line longer than the scanner buffer.
Row(f) == [k |-> "row", f |-> f]
Json(rec) == [k |-> "json", rec |-> rec]
BadLine == [k |-> "bad"]
\* valid JSON that is not an object (a number, a string, an array)
ScalarLine == [k |-> "scalar"]
BlankLine == [k |-> "blank"]
LongLine == [k |-> "long"]

UserHeader == <<"id", "email", "name", "role", "active", "updated_at">>

SourceFiles ==
    [ users1 |-> [format |-> "csv", resource |-> "users", lines |-> <<
          Row(UserHeader),
          Row(<<"u1", "a@x.io", "Ann", "admin", "true", "t1">>),
          Row(<<"", " ", "Bob", "reader", "true", "">>),
          Row(<<"u2", "b@x.io", "Bea", "reader", "false", "">>) >>],
      users2 |-> [format |-> "csv", resource |-> "users", lines |-> <<
          Row(UserHeader),
          BadLine,
          Row(<<"", "a@x.io", "Ann2", "author", "false", "t2">>),
          Row(<<"", "a@x.io", "Ann3", "reader", "TRUE", "t1">>),
          BadLine,
          Row(<<"u1", "c@x.io", "Cy", "admin", "true">>),
          Row(<<"", "A@X.IO", "Ann4", "reader", "true", "t2", "extra">>) >>],
      articles1 |-> [format |-> "ndjson", resource |-> "articles", lines |-> <<
          Json([id |-> "a1", slug |-> "s1", title |-> "T1", body |-> "hi",
                author_id |-> "u1", tags |-> "x,y", status |-> "published",
                published_at |-> "t1"]),
          BlankLine,
          Json([slug |-> "s2", title |-> "T2", author_id |-> "u1",
                published_at |-> "t1"]),
          Json([slug |-> "Bad_Slug", author_id |-> " ", status |-> "draft",
                published_at |-> "t1"]) >>],
      articles2 |-> [format |-> "ndjson", resource |-> "articles", lines |-> <<
          Json([id |-> "a2", slug |-> "s1", title |-> "T1b", author_id |-> "u9",
                status |-> "", published_at |-> Nil]),
          BadLine,
          Json([slug |-> "s1", title |-> "T1c", author_id |-> "u9",
                status |-> "published", published_at |-> "t2"]),
          Json([id |-> "a1", slug |-> "s3", title |-> "T3", author_id |-> "u1",
                status |-> "archived"]) >>],
      comments1 |-> [format |-> "ndjson", resource |-> "comments", lines |-> <<
          Json([id |-> "c1", article_id |-> "a1", user_id |-> "u1",
                body |-> "hi", created_at |-> "t1"]),
          Json([id |-> " ", article_id |-> "a1", user_id |-> "", body |-> "hi"]),
          BadLine,
          Json([id |-> "c2", article_id |-> "a9", user_id |-> "u9",
                body |-> "long"]),
          Json([id |-> "c1", article_id |-> "a1", user_id |-> "u1",
                body |-> "dense", created_at |-> "t2"]),
          LongLine,
          Json([id |-> "c3", article_id |-> "a1", user_id |-> "u1",
                body |-> "hi"]) >>] ]

FileNames == DOMAIN SourceFiles

\* uuid.New(): a fresh identifier per (job, record position)
UuidTable ==
    << <<"g1-1", "g1-2", "g1-3", "g1-4", "g1-5", "g1-6">>,
       <<"g2-1", "g2-2", "g2-3", "g2-4", "g2-5", "g2-6">>,
       <<"g3-1", "g3-2", "g3-3", "g3-4", "g3-5", "g3-6">>,
       <<"g4-1", "g4-2", "g4-3", "g4-4", "g4-5", "g4-6">> >>
NewUuid(job, n) == UuidTable[job][n]

\* ------------------------------------------------------------------ parsers
\* ParseCSV data rows with a record holding only the columns the row has
CSVRecord_NoPadding(headers, row) ==
    [h \in {headers[n] : n \in 1..(IF Len(row) < Len(headers) THEN Len(row) ELSE Len(headers))}
        |-> row[CHOOSE n \in 1..Len(row) : n <= Len(headers) /\ headers[n] = h]]

\* ParseCSV, data rows: map each header name to the row's value at that
\* position, "" where the row is shorter; extra values are dropped; of two
\* columns with one name the later assignment stays
CSVRecord(headers, row) ==
    [h \in Range(headers) |->
        LET i == CHOOSE n \in 1..Len(headers) :
                     /\ headers[n] = h
                     /\ \A m \in (n + 1)..Len(headers) : headers[m] # h
        IN  IF i <= Len(row) THEN row[i] ELSE ""]

\* ------------------------------------------------------- validation results
\* common.RecordValidationResult; error is "" except in the synthetic entry
\* ProcessImportJob writes for a fatal error
NewResult(rowNum, recordID) ==
    [row |-> rowNum, id |-> recordID, valid |-> TRUE, errors |-> << >>, error |-> ""]

\* RecordValidationResult.AddError
AddError(r, field, message) ==
    [r EXCEPT !.valid = FALSE, !.errors = Append(@, <<field, message>>)]

SyntheticError(message) ==
    [row |-> 0, id |-> "", valid |-> FALSE, errors |-> << >>, error |-> message]

\* the user validator returning at its first error
ValidateUserRecord_ShortCircuit(record, rowNum) ==
    LET r0 == NewResult(rowNum, Get(record, "id"))
        email == TrimSpace(Get(record, "email"))
        role == TrimSpace(Get(record, "role"))
        active == ToLower(TrimSpace(Get(record, "active")))
    IN  IF email = ""
        THEN AddError(r0, "email", "Email is required (natural key for upsert)")
        ELSE IF ~ValidateEmail(email)
        THEN AddError(r0, "email", "Invalid email format")
        ELSE IF role = ""
        THEN AddError(r0, "role", "Role is required")
        ELSE IF active # "true" /\ active # "false"
        THEN AddError(r0, "active", "Active must be 'true' or 'false'")
        ELSE r0

\* users.ValidateUserRecord
ValidateUserRecord(record, rowNum) ==
    LET r0 == NewResult(rowNum, Get(record, "id"))
        email == TrimSpace(Get(record, "email"))
        r1 == IF email = ""
              THEN AddError(r0, "email", "Email is required (natural key for upsert)")
              ELSE IF ~ValidateEmail(email)
                   THEN AddError(r0, "email", "Invalid email format")
                   ELSE r0
        role == TrimSpace(Get(record, "role"))
        r2 == IF role = "" THEN AddError(r1, "role", "Role is required") ELSE r1
        active == ToLower(TrimSpace(Get(record, "active")))
        r3 == IF active # "true" /\ active # "false"
              THEN AddError(r2, "active", "Active must be 'true' or 'false'")
              ELSE r2
    IN  r3

\* the article validator without the draft / published_at check
ValidateArticleRecord_NoDraftCheck(record, rowNum) ==
    LET r0 == NewResult(rowNum, "")
        slug == getStringField(record, "slug")
        r1 == IF slug = ""
              THEN AddError(r0, "slug", "Slug is required (natural key for upsert)")
              ELSE IF ~ValidateKebabCase(slug)
                   THEN AddError(r0, "slug", "Slug must be in kebab-case format")
                   ELSE r0
        authorID == getStringField(record, "author_id")
    IN  IF authorID = "" THEN AddError(r1, "author_id", "Author ID is required") ELSE r1

\* articles.ValidateArticleRecord
ValidateArticleRecord(record, rowNum) ==
    LET r0 == NewResult(rowNum, "")
        slug == getStringField(record, "slug")
        r1 == IF slug = ""
              THEN AddError(r0, "slug", "Slug is required (natural key for upsert)")
              ELSE IF ~ValidateKebabCase(slug)
                   THEN AddError(r0, "slug", "Slug must be in kebab-case format")
                   ELSE r0
        r2 == IF "id" \in DOMAIN record /\ record["id"] # Nil
              THEN [r1 EXCEPT !.id = TrimSpace(record["id"])]
              ELSE [r1 EXCEPT !.id = slug]
        authorID == getStringField(record, "author_id")
        r3 == IF authorID = ""
              THEN AddError(r2, "author_id", "Author ID is required")
              ELSE r2
        status == getStringField(record, "status")
        publishedAtStr == getStringField(record, "published_at")
        r4 == IF status = StatusDraft /\ publishedAtStr # ""
              THEN AddError(r3, "published_at",
                            "Draft articles must not have published_at timestamp")
              ELSE r3
    IN  r4

\* articles.ValidateCommentRecord
ValidateCommentRecord(record, rowNum) ==
    LET r0 == NewResult(rowNum, "")
        hasId == "id" \in DOMAIN record /\ record["id"] # Nil
        r1 == IF hasId THEN [r0 EXCEPT !.id = record["id"]] ELSE r0
        id == IF hasId THEN TrimSpace(record["id"]) ELSE ""
        r2 == IF id = "" THEN AddError(r1, "id", "ID is required") ELSE r1
        articleID == getStringField(record, "article_id")
        r3 == IF articleID = ""
              THEN AddError(r2, "article_id", "Article ID is required")
              ELSE r2
        userID == getStringField(record, "user_id")
        r4 == IF userID = "" THEN AddError(r3, "user_id", "User ID is required") ELSE r3
        body == getStringField(record, "body")
        r5 == IF BodyLen(body) > 3500 /\ CountWords(body) > 500
              THEN AddError(r4, "body", "Body exceeds 500 words limit")
              ELSE r4
    IN  r5

\* ------------------------------------------------------------- normalizers
\* time.Parse with the fall-back to time.Now()
TimeOrNow(s) == IF s # "" /\ IsRFC3339(s) THEN s ELSE Now

\* users.NormalizeUserRecord; uuid is the identifier uuid.New() would return
NormalizeUserRecord(record, uuid) ==
    LET id == TrimSpace(Get(record, "id"))
    IN  [id         |-> IF id = "" THEN uuid ELSE id,
         email      |-> TrimSpace(Get(record, "email")),
         name       |-> TrimSpace(Get(record, "name")),
         role       |-> TrimSpace(Get(record, "role")),
         active     |-> ToLower(TrimSpace(Get(record, "active"))) = "true",
         created_at |-> TimeOrNow(TrimSpace(Get(record, "created_at"))),
         updated_at |-> TimeOrNow(TrimSpace(Get(record, "updated_at")))]

\* the tags column: json.Marshal of the tag list, "" for no tags
TagsJSON(record) ==
    IF /\ "tags" \in DOMAIN record
       /\ record["tags"] \notin {Nil, "", EmptyArray}
    THEN IF record["tags"] = "x,y" THEN "[\"x\",\"y\"]" ELSE "[\"" \o record["tags"] \o "\"]"
    ELSE ""

\* articles.NormalizeArticleRecord
NormalizeArticleRecord(record, uuid) ==
    LET id == getStringField(record, "id")
        publishedAtStr == getStringField(record, "published_at")
    IN  [id           |-> IF id = "" THEN uuid ELSE id,
         slug         |-> getStringField(record, "slug"),
         title        |-> getStringField(record, "title"),
         body         |-> getStringField(record, "body"),
         author_id    |-> getStringField(record, "author_id"),
         tags         |-> TagsJSON(record),
         status       |-> getStringField(record, "status"),
         published_at |-> IF publishedAtStr # "" /\ IsRFC3339(publishedAtStr)
                          THEN publishedAtStr ELSE Nil,
         created_at   |-> TimeOrNow(getStringField(record, "created_at"))]

\* articles.NormalizeCommentRecord
NormalizeCommentRecord(record) ==
    [id         |-> getStringField(record, "id"),
     article_id |-> getStringField(record, "article_id"),
     user_id    |-> getStringField(record, "user_id"),
     body       |-> getStringField(record, "body"),
     created_at |-> TimeOrNow(getStringField(record, "created_at"))]

\* --------------------------------------------------------------- the tables
\* A table is the sequence of its rows in storage (rowid) order.

RECURSIVE IndexOf(_, _, _)
\* position of the first row of table whose column col equals v, 0 if none
IndexOf(table, col, v) ==
    IF table = << >> THEN 0
    ELSE IF Head(table)[col] = v THEN 1
    ELSE LET n == IndexOf(Tail(table), col, v) IN IF n = 0 THEN 0 ELSE n + 1

HasRow(table, col, v) == IndexOf(table, col, v) # 0

\* an upsert whose DO UPDATE assigns every column, the identifier included
UpsertRow_AllColumns(table, e, key, mutable) ==
    LET n == IndexOf(table, key, e[key])
    IN  IF n # 0
        THEN [ok |-> TRUE, table |-> [table EXCEPT ![n] = e]]
        ELSE IF HasRow(table, "id", e.id)
             THEN [ok |-> FALSE, table |-> table]
             ELSE [ok |-> TRUE, table |-> Append(table, e)]

\* INSERT ... ON CONFLICT (key) DO UPDATE SET <mutable> = excluded.<mutable>
\* for one row: the conflict target is examined first; a clash on the primary
\* key alone is a constraint error.  Result: [ok, table].
UpsertRow(table, e, key, mutable) ==
    LET n == IndexOf(table, key, e[key])
    IN  IF n # 0
        THEN [ok |-> TRUE,
              table |-> [table EXCEPT ![n] =
                            [c \in DOMAIN e |-> IF c \in mutable THEN e[c] ELSE @[c]]]]
        ELSE IF HasRow(table, "id", e.id)
             THEN [ok |-> FALSE, table |-> table]
             ELSE [ok |-> TRUE, table |-> Append(table, e)]

RECURSIVE UpsertRows(_, _, _, _)
\* the rows of one INSERT statement, applied in order
UpsertRows(table, entities, key, mutable) ==
    IF entities = << >> THEN [ok |-> TRUE, table |-> table]
    ELSE LET r == UpsertRow(table, Head(entities), key, mutable)
         IN  IF r.ok THEN UpsertRows(r.table, Tail(entities), key, mutable)
             ELSE r

\* db.Clauses(clause.OnConflict{...}).Create(&valid): one statement in one
\* transaction; a constraint error leaves the table as it was
Upsert(table, entities, key, mutable) ==
    LET r == UpsertRows(table, entities, key, mutable)
    IN  IF r.ok THEN r ELSE [ok |-> FALSE, table |-> table]

UserMutable == {"name", "role", "active", "updated_at"}
ArticleMutable == {"title", "body", "author_id", "tags", "status", "published_at"}
CommentMutable == {"article_id", "user_id", "body", "created_at"}

\* gorm default:'draft' on ArticleModel.Status: a zero Status is written as draft
ArticleDefaults(e) == IF e.status = "" THEN [e EXCEPT !.status = StatusDraft] ELSE e

\* -------------------------------------------------------- batch processing
\* processBatchUsers, lines 436-455: the outcome of record i of the batch
UserOutcome(record, rowNum) ==
    LET result == ValidateUserRecord(record, rowNum)
    IN  IF result.valid /\ TrimSpace(Get(record, "email")) = ""
        THEN AddError(result, "email", "Email is required (natural key for upsert)")
        ELSE result

\* processBatchArticles, lines 536-559
ArticleOutcome(record, rowNum) ==
    LET result == ValidateArticleRecord(record, rowNum)
    IN  IF result.valid /\ getStringField(record, "slug") = ""
        THEN AddError(result, "slug", "Slug is required (natural key for upsert)")
        ELSE result

\* a comment batch loop that asks for no id: neither the validator's check
\* nor the gate
CommentOutcome_NoIdCheck(record, rowNum) ==
    LET result == ValidateCommentRecord(record, rowNum)
        others == SelectSeq(result.errors, LAMBDA e : e[1] # "id")
    IN  [result EXCEPT !.errors = others, !.valid = (others = << >>)]

\* processBatchComments, lines 640-664
CommentOutcome(record, rowNum) ==
    LET result == ValidateCommentRecord(record, rowNum)
    IN  IF result.valid /\ getStringField(record, "id") = ""
        THEN AddError(result, "id", "ID is required for comments (no natural key available)")
        ELSE result

Outcome(resource, record, rowNum) ==
    CASE resource = "users"    -> UserOutcome(record, rowNum)
      [] resource = "articles" -> ArticleOutcome(record, rowNum)
      [] OTHER                 -> CommentOutcome(record, rowNum)

Normalize(resource, record, uuid) ==
    CASE resource = "users"    -> NormalizeUserRecord(record, uuid)
      [] resource = "articles" -> ArticleDefaults(NormalizeArticleRecord(record, uuid))
      [] OTHER                 -> NormalizeCommentRecord(record)

\* a batch loop that appends every record to the valid list
ValidPositions_All(resource, batch, startRow) == 1..Len(batch)

\* positions of the batch whose record passed validation and the gate
ValidPositions(resource, batch, startRow) ==
    {i \in 1..Len(batch) : Outcome(resource, batch[i], startRow + i - 1).valid}

RECURSIVE SeqOfPositions(_, _, _)
\* [f(i) : i in from..to, i in keep], in order
SeqOfPositions(f, keep, from) ==
    IF from > Len(f) THEN << >>
    ELSE (IF from \in keep THEN <<f[from]>> ELSE << >>)
         \o SeqOfPositions(f, keep, from + 1)

\* failedResults of processBatch*
FailedResults(resource, batch, startRow) ==
    SeqOfPositions([i \in 1..Len(batch) |-> Outcome(resource, batch[i], startRow + i - 1)],
                   (1..Len(batch)) \ ValidPositions(resource, batch, startRow), 1)

\* validUsers / validArticles / validComments of processBatch*
ValidEntities(resource, batch, startRow, job) ==
    SeqOfPositions([i \in 1..Len(batch) |->
                       Normalize(resource, batch[i], NewUuid(job, startRow + i - 1))],
                   ValidPositions(resource, batch, startRow), 1)

ConflictKey(resource) ==
    CASE resource = "users" -> "email" [] resource = "articles" -> "slug" [] OTHER -> "id"

MutableColumns(resource) ==
    CASE resource = "users"    -> UserMutable
      [] resource = "articles" -> ArticleMutable
      [] OTHER                 -> CommentMutable

\* the set-oriented write of processBatch*: skipped when nothing is valid
BatchWrite(table, resource, entities) ==
    IF entities = << >> THEN [ok |-> TRUE, table |-> table]
    ELSE Upsert(table, entities, ConflictKey(resource), MutableColumns(resource))

\* ------------------------------------------------------------ orphan cleanup
\* SELECT a.id, a.author_id FROM articles a LEFT JOIN users u ... WHERE u.id IS NULL
OrphanedArticles(articleT, userT) ==
    SelectSeq(articleT, LAMBDA a : ~HasRow(userT, "id", a.author_id))

\* SELECT ... FROM comments c LEFT JOIN articles a ... LEFT JOIN users u ...
\* WHERE a.id IS NULL OR u.id IS NULL
OrphanedComments(commentT, articleT, userT) ==
    SelectSeq(commentT, LAMBDA c : \/ ~HasRow(articleT, "id", c.article_id)
                                   \/ ~HasRow(userT, "id", c.user_id))

\* DELETE FROM <table> WHERE id = ?
DeleteById(table, id) == SelectSeq(table, LAMBDA r : r.id # id)

\* ------------------------------------------------------------------- state
VARIABLES
    importJobs,   \* table import_jobs; a job's identifier is its position
    exportJobs,   \* table export_jobs
    users,        \* table users
    articles,     \* table articles
    comments,     \* table comments
    uploads,      \* files saved under common.UploadsDir, in order of creation
    exportFiles,  \* files created under common.ExportsDir: [job, rows]
    reqs,         \* creation requests received: input, position, response
    itask,        \* per import job: the locals of its ProcessImportJob goroutine
    etask         \* per export job: the locals of its ProcessExportJob goroutine

vars == <<importJobs, exportJobs, users, articles, comments, uploads,
          exportFiles, reqs, itask, etask>>

tables == <<users, articles, comments>>

ImportKeys == <<"k1", "k2", "k3", "k4">>
Resources == {"users", "articles", "comments"}

\* the stores a process start can find in data/gorm.db: a fresh database, or
\* one left by earlier imports of a user, an article of hers and a comment
EmptyStore == [users |-> << >>, articles |-> << >>, comments |-> << >>]
SeededStore ==
    [users    |-> << [id |-> "u1", email |-> "a@x.io", name |-> "Ann", role |-> "admin",
                      active |-> TRUE, created_at |-> Now, updated_at |-> "t1"] >>,
     articles |-> << [id |-> "a1", slug |-> "s1", title |-> "T1", body |-> "hi",
                      author_id |-> "u1", tags |-> "[\"x\",\"y\"]",
                      status |-> StatusPublished, published_at |-> "t1",
                      created_at |-> Now] >>,
     comments |-> << [id |-> "c1", article_id |-> "a1", user_id |-> "u1",
                      body |-> "hi", created_at |-> "t1"] >>]
InitialStores == {EmptyStore, SeededStore}

Init ==
    /\ importJobs = << >>
    /\ exportJobs = << >>
    /\ \E st \in InitialStores :
          /\ users = st.users
          /\ articles = st.articles
          /\ comments = st.comments
    /\ uploads = << >>
    /\ exportFiles = << >>
    /\ reqs = << >>
    /\ itask = << >>
    /\ etask = << >>

\* ------------------------------------------------------- creation requests
\* keys are interchangeable: a request uses a key already seen or the next one
UsableKeys(kind) ==
    LET used == {reqs[i].in.key : i \in {n \in 1..Len(reqs) : reqs[n].kind = kind}} \ {""}
    IN  used \cup {ImportKeys[Cardinality(used) + 1]}

ImportInputs ==
    {[key |-> k, file |-> f, resource |-> SourceFiles[f].resource] :
        k \in UsableKeys("import") \cup {""}, f \in FileNames}
    \cup {[key |-> k, file |-> "users1", resource |-> r] :
            k \in UsableKeys("import"), r \in {"", "bogus"}}

ExportInputs ==
    {[key |-> k, resource |-> x.resource, format |-> x.format, filters |-> x.filters] :
        k \in UsableKeys("export") \cup {""},
        x \in {[resource |-> "users", format |-> "csv", filters |-> [role |-> "admin"]],
               [resource |-> "articles", format |-> "ndjson",
                filters |-> [status |-> StatusPublished]],
               [resource |-> "comments", format |-> "csv", filters |-> << >>]}}

NoResponse == [code |-> 0, job |-> 0, status |-> ""]
Response(code, job, status) == [code |-> code, job |-> job, status |-> status]

\* db.Where("idempotency_key = ?", key).First(&existingJob): 0 if not found
FindByKey(jobs, key) == IndexOf(jobs, "key", key)

\* CreateImport with the upload saved before the idempotency lookup
CreateImportLookup_SaveFirst(in) ==
    /\ Len(reqs) < MaxRequests
    /\ LET existing == FindByKey(importJobs, in.key)
           r == [kind |-> "import", in |-> in]
       IN  /\ reqs' = Append(reqs,
                 IF in.key = ""
                 THEN r @@ [pc |-> "done", resp |-> Response(400, 0, "")]
                 ELSE IF existing # 0
                 THEN r @@ [pc |-> "done",
                            resp |-> Response(200, existing, importJobs[existing].status)]
                 ELSE r @@ [pc |-> "create", resp |-> NoResponse])
           /\ uploads' = IF in.key # "" /\ existing # 0
                         THEN Append(uploads, in.file) ELSE uploads
    /\ UNCHANGED <<importJobs, exportJobs, tables, exportFiles, itask, etask>>

\* CreateImport, lines 82-99: the Idempotency-Key header and the lookup of an
\* existing job
CreateImportLookup(in) ==
    /\ Len(reqs) < MaxRequests
    /\ LET existing == FindByKey(importJobs, in.key)
           r == [kind |-> "import", in |-> in]
       IN  reqs' = Append(reqs,
               IF in.key = ""
               THEN r @@ [pc |-> "done", resp |-> Response(400, 0, "")]
               ELSE IF existing # 0
               THEN r @@ [pc |-> "done",
                          resp |-> Response(200, existing, importJobs[existing].status)]
               ELSE r @@ [pc |-> "create", resp |-> NoResponse])
    /\ UNCHANGED <<importJobs, exportJobs, tables, uploads, exportFiles, itask, etask>>

NewImportJob(in, path) ==
    [key |-> in.key, resource |-> in.resource, status |-> JobStatusPending,
     file |-> path, total |-> 0, processed |-> 0, success |-> 0, fail |-> 0,
     errors |-> << >>, completed_at |-> Nil]

NewImportTask(job) ==
    [pc |-> "start", job |-> job, lines |-> << >>,
     pos |-> 0, headers |-> << >>, closed |-> FALSE,
     records |-> << >>, errors |-> << >>, batch |-> << >>, rowNum |-> 1,
     allErrors |-> << >>, orphaned |-> << >>, orphanedErrors |-> << >>,
     orphanedCount |-> 0, batchesProcessed |-> 0, writeErrors |-> 0]

\* CreateImport, lines 101-215: the upload is saved, the resource type is
\* checked, the job row is inserted and the background goroutine started
CreateImportFinish(r) ==
    /\ reqs[r].kind = "import" /\ reqs[r].pc = "create"
    /\ LET in == reqs[r].in
           path == Len(uploads) + 1
       IN  IF in.resource = ""
           THEN /\ reqs' = [reqs EXCEPT ![r].pc = "done", ![r].resp = Response(400, 0, "")]
                /\ UNCHANGED <<importJobs, uploads, itask>>
           ELSE /\ uploads' = Append(uploads, in.file)
                /\ IF in.resource \notin Resources
                   THEN /\ reqs' = [reqs EXCEPT ![r].pc = "done",
                                                ![r].resp = Response(400, 0, "")]
                        /\ UNCHANGED <<importJobs, itask>>
                   ELSE IF FindByKey(importJobs, in.key) # 0
                   THEN \* unique index on idempotency_key: db.Create fails
                        /\ reqs' = [reqs EXCEPT ![r].pc = "done",
                                                ![r].resp = Response(500, 0, "")]
                        /\ UNCHANGED <<importJobs, itask>>
                   ELSE /\ importJobs' = Append(importJobs, NewImportJob(in, path))
                        /\ itask' = Append(itask, NewImportTask(NewImportJob(in, path)))
                        /\ reqs' = [reqs EXCEPT ![r].pc = "done",
                                       ![r].resp = Response(202, Len(importJobs) + 1,
                                                            JobStatusPending)]
    /\ UNCHANGED <<exportJobs, tables, exportFiles, etask>>

\* CreateExport, lines 357-373: binding of the body and the lookup
CreateExportLookup(in) ==
    /\ Len(reqs) < MaxRequests
    /\ LET existing == FindByKey(exportJobs, in.key)
           r == [kind |-> "export", in |-> in]
       IN  reqs' = Append(reqs,
               IF in.key = ""
               THEN r @@ [pc |-> "done", resp |-> Response(400, 0, "")]
               ELSE IF existing # 0
               THEN r @@ [pc |-> "done",
                          resp |-> Response(200, existing, exportJobs[existing].status)]
               ELSE r @@ [pc |-> "create", resp |-> NoResponse])
    /\ UNCHANGED <<importJobs, exportJobs, tables, uploads, exportFiles, itask, etask>>

NewExportJob(in) ==
    [key |-> in.key, resource |-> in.resource, format |-> in.format,
     filters |-> in.filters, status |-> JobStatusPending, file |-> 0,
     download_url |-> "", total |-> 0, completed_at |-> Nil]

\* matchingAtStart is a history field, not a local of the code: the number of
\* stored rows that matched the filters when the task began
NewExportTask(job) ==
    [pc |-> "start", job |-> job, filters |-> job.filters, offset |-> 0, out |-> 0,
     matchingAtStart |-> 0, queryError |-> FALSE]

\* CreateExport on a table without the unique index on idempotency_key
CreateExportFinish_NoUniqueIndex(r) ==
    /\ reqs[r].kind = "export" /\ reqs[r].pc = "create"
    /\ LET in == reqs[r].in
       IN  /\ exportJobs' = Append(exportJobs, NewExportJob(in))
           /\ etask' = Append(etask, NewExportTask(NewExportJob(in)))
           /\ reqs' = [reqs EXCEPT ![r].pc = "done",
                          ![r].resp = Response(202, Len(exportJobs) + 1,
                                               JobStatusPending)]
    /\ UNCHANGED <<importJobs, tables, uploads, exportFiles, itask>>

\* CreateExport, lines 375-402: the job row is inserted and the goroutine started
CreateExportFinish(r) ==
    /\ reqs[r].kind = "export" /\ reqs[r].pc = "create"
    /\ LET in == reqs[r].in
       IN  IF FindByKey(exportJobs, in.key) # 0
           THEN /\ reqs' = [reqs EXCEPT ![r].pc = "done", ![r].resp = Response(500, 0, "")]
                /\ UNCHANGED <<exportJobs, etask>>
           ELSE /\ exportJobs' = Append(exportJobs, NewExportJob(in))
                /\ etask' = Append(etask, NewExportTask(NewExportJob(in)))
                /\ reqs' = [reqs EXCEPT ![r].pc = "done",
                               ![r].resp = Response(202, Len(exportJobs) + 1,
                                                    JobStatusPending)]
    /\ UNCHANGED <<importJobs, tables, uploads, exportFiles, itask>>

\* ------------------------------------------------------ the import pipeline
\* db.Save(&job): the whole row is overwritten with the goroutine's copy
SaveImportJob(j, job) == importJobs' = [importJobs EXCEPT ![j] = job]

SourceLines(j) == SourceFiles[uploads[importJobs[j].file]].lines

\* ProcessImportJob without the db.Save of status processing
ImportStart_NoSave(j) ==
    /\ itask[j].pc = "start"
    /\ itask' = [itask EXCEPT ![j].job = [importJobs[j] EXCEPT !.status = JobStatusProcessing],
                              ![j].pc = "open"]
    /\ UNCHANGED <<importJobs, exportJobs, tables, uploads, exportFiles, reqs, etask>>

\* ProcessImportJob saving the job row without setting its status first
ImportStart_KeepsStatus(j) ==
    /\ itask[j].pc = "start"
    /\ SaveImportJob(j, importJobs[j])
    /\ itask' = [itask EXCEPT ![j].job = importJobs[j], ![j].pc = "open"]
    /\ UNCHANGED <<exportJobs, tables, uploads, exportFiles, reqs, etask>>

\* ProcessImportJob, lines 293-302: load the job, persist status processing
ImportStart(j) ==
    /\ itask[j].pc = "start"
    /\ LET job == [importJobs[j] EXCEPT !.status = JobStatusProcessing]
       IN  /\ SaveImportJob(j, job)
           /\ itask' = [itask EXCEPT ![j].job = job, ![j].pc = "open"]
    /\ UNCHANGED <<exportJobs, tables, uploads, exportFiles, reqs, etask>>

\* the open-failure branch without job.CompletedAt = &now
ImportOpen_NoCompletedAt(j) ==
    /\ itask[j].pc = "open"
    /\ \E opened \in BOOLEAN :
          IF opened
          THEN /\ itask' = [itask EXCEPT ![j].pc = "stream",
                                         ![j].lines = SourceLines(j)]
               /\ UNCHANGED importJobs
          ELSE LET job == [itask[j].job EXCEPT
                              !.status = JobStatusFailed,
                              !.errors = <<SyntheticError("Failed to open file")>>]
               IN  /\ importJobs' = [importJobs EXCEPT ![j] = job]
                   /\ itask' = [itask EXCEPT ![j].job = job, ![j].pc = "done"]
    /\ UNCHANGED <<exportJobs, tables, uploads, exportFiles, reqs, etask>>

\* ProcessImportJob, lines 304-328: os.Open; on success the process*Import
\* function starts the parser goroutine and the goroutine draining its errors
ImportOpen(j) ==
    /\ itask[j].pc = "open"
    /\ \E opened \in BOOLEAN :
          IF opened
          THEN /\ itask' = [itask EXCEPT ![j].pc = "stream",
                                         ![j].lines = SourceLines(j)]
               /\ UNCHANGED importJobs
          ELSE LET job == [itask[j].job EXCEPT
                              !.status = JobStatusFailed,
                              !.errors = <<SyntheticError("Failed to open file")>>,
                              !.completed_at = Now]
               IN  /\ SaveImportJob(j, job)
                   /\ itask' = [itask EXCEPT ![j].job = job, ![j].pc = "done"]
    /\ UNCHANGED <<exportJobs, tables, uploads, exportFiles, reqs, etask>>

\* which parser process*Import applies: ParseCSV for users, ParseNDJSON for
\* articles and comments
ParserOf(resource) == IF resource = "users" THEN "csv" ELSE "ndjson"

\* what csv.Reader.Read makes of a line
CSVRead(line) ==
    CASE line.k = "row"   -> "record"
      [] line.k = "blank" -> "skip"
      [] OTHER            -> "error"

\* what the scanner loop of ParseNDJSON makes of a line
NDJSONRead(line) ==
    CASE line.k = "json"  -> "record"
      [] line.k = "blank" -> "skip"
      [] line.k = "long"  -> "stop"
      [] OTHER            -> "error"

\* one iteration of the goroutine of ParseCSV (header read, then data rows)
ParseCSVStep(j) ==
    LET t == itask[j]
        lines == t.lines
    IN  IF t.pos >= Len(lines)
        THEN itask' = [itask EXCEPT ![j].closed = TRUE]
        ELSE LET line == lines[t.pos + 1]
                 what == CSVRead(line)
             IN  IF what = "skip"
                 THEN itask' = [itask EXCEPT ![j].pos = @ + 1]
                 ELSE IF what = "error"
                 THEN /\ Len(t.errors) < ErrorsCap
                      /\ itask' = [itask EXCEPT
                            ![j].errors = Append(@, "err"),
                            ![j].pos = IF t.headers = << >> THEN Len(lines) ELSE @ + 1]
                 ELSE IF t.headers = << >>
                 THEN itask' = [itask EXCEPT ![j].headers = line.f, ![j].pos = @ + 1]
                 ELSE /\ Len(t.records) < RecordsCap
                      /\ itask' = [itask EXCEPT
                            ![j].records = Append(@, CSVRecord(t.headers, line.f)),
                            ![j].pos = @ + 1]

\* one iteration of the goroutine of ParseNDJSON
ParseNDJSONStep(j) ==
    LET t == itask[j]
        lines == t.lines
    IN  IF t.pos >= Len(lines)
        THEN itask' = [itask EXCEPT ![j].closed = TRUE]
        ELSE LET line == lines[t.pos + 1]
                 what == NDJSONRead(line)
             IN  IF what = "skip"
                 THEN itask' = [itask EXCEPT ![j].pos = @ + 1]
                 ELSE IF what = "error"
                 THEN /\ Len(t.errors) < ErrorsCap
                      /\ itask' = [itask EXCEPT ![j].errors = Append(@, "err"),
                                                ![j].pos = @ + 1]
                 ELSE IF what = "stop"
                 THEN /\ Len(t.errors) < ErrorsCap
                      /\ itask' = [itask EXCEPT ![j].errors = Append(@, "err"),
                                                ![j].pos = Len(lines)]
                 ELSE /\ Len(t.records) < RecordsCap
                      /\ itask' = [itask EXCEPT ![j].records = Append(@, line.rec),
                                                ![j].pos = @ + 1]

\* the parser goroutine: reads the next line and sends on a channel, blocking
\* while that channel is full; at end of input closes both channels
ParserStep(j) ==
    /\ itask[j].pc = "stream" /\ ~itask[j].closed
    /\ IF ParserOf(itask[j].job.resource) = "csv"
       THEN ParseCSVStep(j) ELSE ParseNDJSONStep(j)
    /\ UNCHANGED <<importJobs, exportJobs, tables, uploads, exportFiles, reqs, etask>>

\* process*Import without the goroutine that drains the errors channel
DrainStep_NotStarted(j) ==
    /\ itask[j].errors # << >>
    /\ FALSE
    /\ UNCHANGED vars

\* go func() { for range errors {} }()
DrainStep(j) ==
    /\ itask[j].errors # << >>
    /\ itask' = [itask EXCEPT ![j].errors = Tail(@)]
    /\ UNCHANGED <<importJobs, exportJobs, tables, uploads, exportFiles, reqs, etask>>

TableOf(resource) ==
    CASE resource = "users" -> users [] resource = "articles" -> articles [] OTHER -> comments

\* the tables after the batch's write
WriteTables(resource, w) ==
    /\ users' = IF resource = "users" THEN w.table ELSE users
    /\ articles' = IF resource = "articles" THEN w.table ELSE articles
    /\ comments' = IF resource = "comments" THEN w.table ELSE comments

\* processBatch* and the counter updates that follow it (lines 394-398, 414-418);
\* w is the outcome of the batch's Create, whose error the code discards:
\* writeErrors counts those discarded errors
AfterBatch_KeepsLastErrors(t, batch, failed, w) ==
    [t EXCEPT !.writeErrors = IF w.ok THEN @ ELSE @ + 1,
              !.job.processed = @ + Len(batch),
              !.job.success = @ + Len(batch) - Len(failed),
              !.job.fail = @ + Len(failed),
              !.allErrors = IF failed # << >> THEN failed ELSE @]

AfterBatch(t, batch, failed, w) ==
    [t EXCEPT !.writeErrors = IF w.ok THEN @ ELSE @ + 1,
              !.job.processed = @ + Len(batch),
              !.job.success = @ + Len(batch) - Len(failed),
              !.job.fail = @ + Len(failed),
              !.allErrors = @ \o failed]

\* the loop saving the job after every record received
ConsumeRecord_SaveEachRecord(j) ==
    /\ itask[j].pc = "stream" /\ itask[j].records # << >>
    /\ LET t == itask[j]
           res == t.job.resource
           batch == Append(t.batch, Head(t.records))
           t1 == [t EXCEPT !.records = Tail(@), !.job.total = @ + 1]
       IN  IF Len(batch) >= BatchSize
           THEN LET failed == FailedResults(res, batch, t.rowNum)
                    w == BatchWrite(TableOf(res), res, ValidEntities(res, batch, t.rowNum, j))
                    t2 == [AfterBatch(t1, batch, failed, w) EXCEPT
                              !.rowNum = @ + Len(batch), !.batch = << >>,
                              !.batchesProcessed = @ + 1]
                IN  /\ WriteTables(res, w)
                    /\ itask' = [itask EXCEPT ![j] = t2]
                    /\ SaveImportJob(j, t2.job)
           ELSE /\ itask' = [itask EXCEPT ![j] = [t1 EXCEPT !.batch = batch]]
                /\ SaveImportJob(j, t1.job)
                /\ UNCHANGED tables
    /\ UNCHANGED <<exportJobs, uploads, exportFiles, reqs, etask>>

\* for record := range records, one iteration (lines 389-410): a full batch is
\* validated, written and the progress saved
ConsumeRecord(j) ==
    /\ itask[j].pc = "stream" /\ itask[j].records # << >>
    /\ LET t == itask[j]
           res == t.job.resource
           batch == Append(t.batch, Head(t.records))
           t1 == [t EXCEPT !.records = Tail(@), !.job.total = @ + 1]
       IN  IF Len(batch) >= BatchSize
           THEN LET failed == FailedResults(res, batch, t.rowNum)
                    w == BatchWrite(TableOf(res), res, ValidEntities(res, batch, t.rowNum, j))
                    t2 == [AfterBatch(t1, batch, failed, w) EXCEPT
                              !.rowNum = @ + Len(batch), !.batch = << >>,
                              !.batchesProcessed = @ + 1]
                IN  /\ WriteTables(res, w)
                    /\ itask' = [itask EXCEPT ![j] = t2]
                    /\ IF t2.batchesProcessed % ProgressUpdateFrequency = 0
                       THEN SaveImportJob(j, t2.job) ELSE UNCHANGED importJobs
           ELSE /\ itask' = [itask EXCEPT ![j] = [t1 EXCEPT !.batch = batch]]
                /\ UNCHANGED <<importJobs, tables>>
    /\ UNCHANGED <<exportJobs, uploads, exportFiles, reqs, etask>>

\* ProcessImportJob without the call of cleanupOrphanedRecords
ConsumeEnd_NoCleanup(j) ==
    /\ itask[j].pc = "stream" /\ itask[j].records = << >> /\ itask[j].closed
    /\ LET t == itask[j]
           res == t.job.resource
           failed == FailedResults(res, t.batch, t.rowNum)
           w == BatchWrite(TableOf(res), res, ValidEntities(res, t.batch, t.rowNum, j))
           t1 == IF t.batch # << >> THEN AfterBatch(t, t.batch, failed, w) ELSE t
           t2 == IF t1.allErrors # << >> THEN [t1 EXCEPT !.job.errors = t1.allErrors] ELSE t1
       IN  /\ IF t.batch # << >> THEN WriteTables(res, w) ELSE UNCHANGED tables
           /\ itask' = [itask EXCEPT ![j] = [t2 EXCEPT !.pc = "final"]]
    /\ UNCHANGED <<importJobs, exportJobs, uploads, exportFiles, reqs, etask>>

\* the records channel is closed and empty (lines 412-427): the remaining
\* batch is processed and the errors stored in the goroutine's copy of the job
ConsumeEnd(j) ==
    /\ itask[j].pc = "stream" /\ itask[j].records = << >> /\ itask[j].closed
    /\ LET t == itask[j]
           res == t.job.resource
           failed == FailedResults(res, t.batch, t.rowNum)
           w == BatchWrite(TableOf(res), res, ValidEntities(res, t.batch, t.rowNum, j))
           t1 == IF t.batch # << >> THEN AfterBatch(t, t.batch, failed, w) ELSE t
           t2 == IF t1.allErrors # << >> THEN [t1 EXCEPT !.job.errors = t1.allErrors] ELSE t1
       IN  /\ IF t.batch # << >> THEN WriteTables(res, w) ELSE UNCHANGED tables
           /\ itask' = [itask EXCEPT ![j] =
                 [t2 EXCEPT !.pc = IF res \in {"articles", "comments"}
                                   THEN "cleanup" ELSE "final"]]
    /\ UNCHANGED <<importJobs, exportJobs, uploads, exportFiles, reqs, etask>>

\* cleanupOrphanedRecords, lines 683-697 and 718-734: the scan for orphans
CleanupSelect(j) ==
    /\ itask[j].pc = "cleanup"
    /\ LET orphaned == IF itask[j].job.resource = "articles"
                       THEN OrphanedArticles(articles, users)
                       ELSE OrphanedComments(comments, articles, users)
       IN  itask' = [itask EXCEPT ![j].orphaned = orphaned,
                                  ![j].orphanedCount = Len(orphaned),
                                  ![j].pc = IF orphaned = << >> THEN "final" ELSE "delete"]
    /\ UNCHANGED <<importJobs, exportJobs, tables, uploads, exportFiles, reqs, etask>>

\* the validation outcome cleanupOrphanedRecords reports for a deleted article
OrphanedArticleResult(a) ==
    AddError([NewResult(0, a.id) EXCEPT !.valid = FALSE], "author_id",
             "Foreign key violation: author_id does not exist")

\* the outcome for a deleted comment reporting the first dangling key only
OrphanedCommentResult_FirstOnly(c, articleT, userT) ==
    LET r0 == [NewResult(0, c.id) EXCEPT !.valid = FALSE]
    IN  IF ~HasRow(articleT, "id", c.article_id)
        THEN AddError(r0, "article_id", "Foreign key violation: article_id does not exist")
        ELSE IF ~HasRow(userT, "id", c.user_id)
        THEN AddError(r0, "user_id", "Foreign key violation: user_id does not exist")
        ELSE r0

\* ... and for a deleted comment, from the two EXISTS queries (lines 746-756)
OrphanedCommentResult(c, articleT, userT) ==
    LET r0 == [NewResult(0, c.id) EXCEPT !.valid = FALSE]
        r1 == IF ~HasRow(articleT, "id", c.article_id)
              THEN AddError(r0, "article_id", "Foreign key violation: article_id does not exist")
              ELSE r0
    IN  IF ~HasRow(userT, "id", c.user_id)
        THEN AddError(r1, "user_id", "Foreign key violation: user_id does not exist")
        ELSE r1

\* the counter adjustment without the increment of FailCount
AfterCleanup_NoFail(t) ==
    [t EXCEPT !.job.success = @ - t.orphanedCount,
              !.job.errors = IF t.orphanedErrors # << >>
                             THEN @ \o t.orphanedErrors ELSE @]

\* ProcessImportJob, lines 333-348: the counters and the error list after the
\* cleanup returned orphanedCount rows
\* the reclassification with the two adjustments exchanged
AfterCleanup_SwappedSigns(t) ==
    [t EXCEPT !.job.success = @ + t.orphanedCount,
              !.job.fail = @ - t.orphanedCount,
              !.job.errors = IF t.orphanedErrors # << >>
                             THEN @ \o t.orphanedErrors ELSE @]

AfterCleanup(t) ==
    [t EXCEPT !.job.success = @ - t.orphanedCount,
              !.job.fail = @ + t.orphanedCount,
              !.job.errors = IF t.orphanedErrors # << >>
                             THEN @ \o t.orphanedErrors ELSE @]

\* cleanupOrphanedRecords, one iteration of the delete loop (lines 701-712,
\* 738-761); after the last one the job's counters are adjusted
CleanupDelete(j) ==
    /\ itask[j].pc = "delete"
    /\ LET t == itask[j]
           o == Head(t.orphaned)
           isArticle == t.job.resource = "articles"
           articles1 == IF isArticle THEN DeleteById(articles, o.id) ELSE articles
           comments1 == IF isArticle THEN comments ELSE DeleteById(comments, o.id)
           result == IF isArticle THEN OrphanedArticleResult(o)
                     ELSE OrphanedCommentResult(o, articles1, users)
           t1 == [t EXCEPT !.orphaned = Tail(@), !.orphanedErrors = Append(@, result)]
       IN  /\ articles' = articles1
           /\ comments' = comments1
           /\ itask' = [itask EXCEPT ![j] =
                 IF t1.orphaned = << >> THEN [AfterCleanup(t1) EXCEPT !.pc = "final"]
                 ELSE t1]
    /\ UNCHANGED <<importJobs, exportJobs, users, uploads, exportFiles, reqs, etask>>

\* ProcessImportJob, lines 351-365: completed_at, the final status and db.Save.
\* processErr is nil on this path: process*Import return nil whatever happened
ImportFinal(j) ==
    /\ itask[j].pc = "final"
    /\ LET job == [itask[j].job EXCEPT !.completed_at = Now,
                                       !.status = JobStatusCompleted]
       IN  /\ SaveImportJob(j, job)
           /\ itask' = [itask EXCEPT ![j].job = job, ![j].pc = "done"]
    /\ UNCHANGED <<exportJobs, tables, uploads, exportFiles, reqs, etask>>

\* ------------------------------------------------------- the export task
SaveExportJob(j, job) == exportJobs' = [exportJobs EXCEPT ![j] = job]

\* the Where clauses export* adds for the filters it knows
Matches(resource, row, filters) ==
    LET has(f) == f \in DOMAIN filters
    IN  CASE resource = "users" ->
               /\ has("role") => row.role = filters["role"]
               /\ has("active") => row.active = (filters["active"] = "true")
          [] resource = "articles" ->
               /\ has("status") => row.status = filters["status"]
               /\ has("author_id") => row.author_id = filters["author_id"]
          [] OTHER ->
               /\ has("article_id") => row.article_id = filters["article_id"]
               /\ has("user_id") => row.user_id = filters["user_id"]

\* the rows of a table the filtered query selects, in table order
Matching(resource, filters) ==
    SelectSeq(TableOf(resource), LAMBDA row : Matches(resource, row, filters))

\* ProcessExportJob, lines 449-457
ExportStart(j) ==
    /\ etask[j].pc = "start"
    /\ LET job == [exportJobs[j] EXCEPT !.status = JobStatusProcessing]
       IN  /\ SaveExportJob(j, job)
           /\ etask' = [etask EXCEPT ![j].job = job, ![j].pc = "create",
                 ![j].matchingAtStart = Len(Matching(job.resource, etask[j].filters))]
    /\ UNCHANGED <<importJobs, tables, uploads, exportFiles, reqs, itask>>

\* ProcessExportJob whose failure path fills in the download location as well
ExportCreateFile_SetsUrl(j) ==
    /\ etask[j].pc = "create"
    /\ \E created \in BOOLEAN :
          IF created
          THEN /\ exportFiles' = Append(exportFiles, [job |-> j, rows |-> << >>])
               /\ etask' = [etask EXCEPT ![j].pc = "page",
                                         ![j].out = Len(exportFiles) + 1]
               /\ UNCHANGED exportJobs
          ELSE LET job == [etask[j].job EXCEPT !.status = JobStatusFailed,
                                               !.download_url = "/exports/file",
                                               !.completed_at = Now]
               IN  /\ SaveExportJob(j, job)
                   /\ etask' = [etask EXCEPT ![j].job = job, ![j].pc = "done"]
                   /\ UNCHANGED exportFiles
    /\ UNCHANGED <<importJobs, tables, uploads, reqs, itask>>

\* ProcessExportJob, lines 459-474: os.Create of the output file
ExportCreateFile(j) ==
    /\ etask[j].pc = "create"
    /\ \E created \in BOOLEAN :
          IF created
          THEN /\ exportFiles' = Append(exportFiles, [job |-> j, rows |-> << >>])
               /\ etask' = [etask EXCEPT ![j].pc = "page",
                                         ![j].out = Len(exportFiles) + 1]
               /\ UNCHANGED exportJobs
          ELSE LET job == [etask[j].job EXCEPT !.status = JobStatusFailed,
                                               !.completed_at = Now]
               IN  /\ SaveExportJob(j, job)
                   /\ etask' = [etask EXCEPT ![j].job = job, ![j].pc = "done"]
                   /\ UNCHANGED exportFiles
    /\ UNCHANGED <<importJobs, tables, uploads, reqs, itask>>

\* query.Limit(BatchSize).Offset(offset).Find(&rows)
Page(table, resource, filters, offset) ==
    LET matching == SelectSeq(table, LAMBDA row : Matches(resource, row, filters))
        last == IF offset + ExportBatchSize < Len(matching)
                THEN offset + ExportBatchSize ELSE Len(matching)
    IN  SubSeq(matching, offset + 1, last)

\* export*, one iteration of the page loop, with its progress updates (the
\* users CSV branch also saves the whole job every ProgressUpdateInterval rows)
ExportPage(j) ==
    /\ etask[j].pc = "page"
    /\ LET t == etask[j]
           page == Page(TableOf(t.job.resource), t.job.resource, t.filters, t.offset)
           job == [t.job EXCEPT !.total = @ + Len(page)]
           saved == IF /\ t.job.resource = "users" /\ t.job.format = "csv"
                       /\ job.total % ProgressUpdateInterval = 0
                    THEN job ELSE exportJobs[j]
           updated == IF t.offset % ProgressUpdateInterval = 0
                      THEN [saved EXCEPT !.total = job.total] ELSE saved
       IN  IF page = << >>
           THEN /\ etask' = [etask EXCEPT ![j].pc = "final"]
                /\ UNCHANGED <<exportJobs, exportFiles>>
           ELSE /\ exportFiles' = [exportFiles EXCEPT ![t.out].rows = @ \o page]
                /\ SaveExportJob(j, updated)
                /\ etask' = [etask EXCEPT
                      ![j].job = job,
                      ![j].offset = IF Len(page) < ExportBatchSize THEN @
                                    ELSE @ + ExportBatchSize,
                      ![j].pc = IF Len(page) < ExportBatchSize THEN "final" ELSE "page"]
    /\ UNCHANGED <<importJobs, tables, uploads, reqs, itask>>

\* export*, the page query returns an error: result.Error != nil leaves the
\* loop by the same break as an empty page (queryError is a history field)
ExportPageError(j) ==
    /\ etask[j].pc = "page"
    /\ etask' = [etask EXCEPT ![j].pc = "final", ![j].queryError = TRUE]
    /\ UNCHANGED <<importJobs, exportJobs, tables, uploads, exportFiles, reqs, itask>>

\* ProcessExportJob, lines 487-496: export* returned nil
ExportFinal(j) ==
    /\ etask[j].pc = "final"
    /\ LET job == [etask[j].job EXCEPT !.status = JobStatusCompleted,
                                       !.download_url = "/exports/file",
                                       !.file = etask[j].out,
                                       !.completed_at = Now]
       IN  /\ SaveExportJob(j, job)
           /\ etask' = [etask EXCEPT ![j].job = job, ![j].pc = "done"]
    /\ UNCHANGED <<importJobs, tables, uploads, exportFiles, reqs, itask>>

\* ------------------------------------------------------------ status reads
\* GetImport: the response built from the stored row of job j
GetImport(j) ==
    LET job == importJobs[j]
        response == [resource_type |-> job.resource, status |-> job.status,
                     total_records |-> job.total, processed_count |-> job.processed,
                     success_count |-> job.success, fail_count |-> job.fail,
                     errors |-> job.errors]
    IN  IF job.completed_at # Nil
        THEN response @@ [completed_at |-> FormatRFC3339(job.completed_at)]
        ELSE response

\* GetExport: the response built from the stored row of job j
GetExport(j) ==
    LET job == exportJobs[j]
        response == [resource_type |-> job.resource, format |-> job.format,
                     status |-> job.status, total_records |-> job.total]
        completed == IF job.completed_at # Nil
                     THEN response @@ [completed_at |-> job.completed_at]
                     ELSE response
    IN  IF job.download_url # ""
        THEN completed @@ [download_url |-> job.download_url]
        ELSE completed

\* ------------------------------------------------------------ specification
ImportJobIds == 1..Len(importJobs)
ExportJobIds == 1..Len(exportJobs)

Next ==
    \/ \E in \in ImportInputs : CreateImportLookup(in)
    \/ \E r \in 1..Len(reqs) : CreateImportFinish(r)
    \/ \E in \in ExportInputs : CreateExportLookup(in)
    \/ \E r \in 1..Len(reqs) : CreateExportFinish(r)
    \/ \E j \in ImportJobIds : ImportStart(j)
    \/ \E j \in ImportJobIds : ImportOpen(j)
    \/ \E j \in ImportJobIds : ParserStep(j)
    \/ \E j \in ImportJobIds : DrainStep(j)
    \/ \E j \in ImportJobIds : ConsumeRecord(j)
    \/ \E j \in ImportJobIds : ConsumeEnd(j)
    \/ \E j \in ImportJobIds : CleanupSelect(j)
    \/ \E j \in ImportJobIds : CleanupDelete(j)
    \/ \E j \in ImportJobIds : ImportFinal(j)
    \/ \E j \in ExportJobIds : ExportStart(j)
    \/ \E j \in ExportJobIds : ExportCreateFile(j)
    \/ \E j \in ExportJobIds : ExportPage(j)
    \/ \E j \in ExportJobIds : ExportFinal(j)

Spec == Init /\ [][Next]_vars

\* the goroutines of job j; each is scheduled as long as it can run
ImportTask(j) ==
    /\ j \in ImportJobIds
    /\ \/ ImportStart(j) \/ ImportOpen(j) \/ ConsumeRecord(j) \/ ConsumeEnd(j)
       \/ CleanupSelect(j) \/ CleanupDelete(j) \/ ImportFinal(j)
ParserGoroutine(j) == j \in ImportJobIds /\ ParserStep(j)
DrainGoroutine(j) == j \in ImportJobIds /\ DrainStep(j)
ExportTask(j) ==
    /\ j \in ExportJobIds
    /\ \/ ExportStart(j) \/ ExportCreateFile(j) \/ ExportPage(j) \/ ExportFinal(j)

Fairness ==
    \A j \in 1..MaxLiveRequests :
        /\ WF_vars(ImportTask(j))
        /\ WF_vars(ParserGoroutine(j))
        /\ WF_vars(DrainGoroutine(j))
        /\ WF_vars(ExportTask(j))

\* the same steps, with fewer requests accepted
LiveNext == Next /\ Len(reqs') <= MaxLiveRequests

LiveSpec == Init /\ [][LiveNext]_vars /\ Fairness

\* the same program over a store whose page queries may fail
FaultNext ==
    \/ Next
    \/ \E j \in ExportJobIds : ExportPageError(j)

FaultSpec == Init /\ [][FaultNext]_vars

\* ------------------------------------------------ a parser run on its own
\* parsers_test.go: a parser is started on an input and its two channels are
\* received from until each is closed. The tests read the records channel to
\* its end and then the errors channel; process*Import reads both at once.
CSVLineSet ==
    {Row(<<"id", "email">>), Row(<<"id", "id">>), Row(<<"u1">>),
     Row(<<"u2", "b@x.io", "extra">>), BlankLine, BadLine}
NDJSONLineSet ==
    {Json([id |-> "c1"]), Json([id |-> "c2", body |-> "hi"]),
     BlankLine, BadLine, ScalarLine, LongLine}

RECURSIVE SeqsUpTo(_, _)
\* the sequences over set S of length at most n
SeqsUpTo(S, n) ==
    IF n = 0 THEN {<< >>}
    ELSE LET shorter == SeqsUpTo(S, n - 1)
         IN  shorter \cup {Append(q, x) : q \in shorter, x \in S}

ReceiveOrders == {"records-first", "errors-first", "both"}

NewParserRun(parser, lines, order) ==
    [order |-> order, got |-> << >>, gotErrors |-> 0,
     recordsDone |-> FALSE, errorsDone |-> FALSE]
    @@ [NewImportTask([resource |-> IF parser = "csv" THEN "users" ELSE "articles"])
           EXCEPT !.pc = "stream", !.lines = lines]

ParserInit ==
    /\ importJobs = << >> /\ exportJobs = << >>
    /\ users = << >> /\ articles = << >> /\ comments = << >>
    /\ uploads = << >> /\ exportFiles = << >> /\ reqs = << >> /\ etask = << >>
    /\ \E parser \in {"csv", "ndjson"}, order \in ReceiveOrders :
          \E lines \in SeqsUpTo(IF parser = "csv" THEN CSVLineSet ELSE NDJSONLineSet,
                                MaxLines) :
             itask = <<NewParserRun(parser, lines, order)>>

\* for record := range records: one record received
RecvRecord(j) ==
    /\ ~itask[j].recordsDone
    /\ itask[j].order = "errors-first" => itask[j].errorsDone
    /\ itask[j].records # << >>
    /\ itask' = [itask EXCEPT ![j].got = Append(@, Head(itask[j].records)),
                              ![j].records = Tail(@)]
    /\ UNCHANGED <<importJobs, exportJobs, tables, uploads, exportFiles, reqs, etask>>

\* for record := range records: the channel is closed and empty
RecordsEnd(j) ==
    /\ ~itask[j].recordsDone
    /\ itask[j].order = "errors-first" => itask[j].errorsDone
    /\ itask[j].records = << >> /\ itask[j].closed
    /\ itask' = [itask EXCEPT ![j].recordsDone = TRUE]
    /\ UNCHANGED <<importJobs, exportJobs, tables, uploads, exportFiles, reqs, etask>>

\* for err := range errors: one error received
RecvError(j) ==
    /\ ~itask[j].errorsDone
    /\ itask[j].order = "records-first" => itask[j].recordsDone
    /\ itask[j].errors # << >>
    /\ itask' = [itask EXCEPT ![j].gotErrors = @ + 1, ![j].errors = Tail(@)]
    /\ UNCHANGED <<importJobs, exportJobs, tables, uploads, exportFiles, reqs, etask>>

\* for err := range errors: the channel is closed and empty
ErrorsEnd(j) ==
    /\ ~itask[j].errorsDone
    /\ itask[j].order = "records-first" => itask[j].recordsDone
    /\ itask[j].errors = << >> /\ itask[j].closed
    /\ itask' = [itask EXCEPT ![j].errorsDone = TRUE]
    /\ UNCHANGED <<importJobs, exportJobs, tables, uploads, exportFiles, reqs, etask>>

ParserNext ==
    \E j \in 1..Len(itask) :
        \/ ParserStep(j)
        \/ RecvRecord(j)
        \/ RecordsEnd(j)
        \/ RecvError(j)
        \/ ErrorsEnd(j)

ParserSpec == ParserInit /\ [][ParserNext]_vars

\* ---------------------------------------------------- a batch on its own
\* processBatch* and the counter updates of its caller applied to one batch
\* of one record, the record drawn from the values a source can carry for
\* each field ("<absent>": the record has no such field).
Absent == "<absent>"
Present(full) == [f \in {g \in DOMAIN full : full[g] # Absent} |-> full[f]]

UserRecords ==
    {Present([id |-> i, email |-> e, name |-> "Ann", role |-> r, active |-> a,
              updated_at |-> "t2"]) :
        i \in {"", "u1"}, e \in {Absent, "a@x.io", "A@X.IO", " ", "bad"},
        r \in {Absent, "reader", " "}, a \in {Absent, "TRUE", "false", "maybe", ""}}
ArticleRecords ==
    {Present([id |-> "a1", slug |-> sl, title |-> "T", author_id |-> au,
              status |-> st, published_at |-> pa]) :
        sl \in {Absent, "s1", "Bad_Slug"}, au \in {"u1", " "},
        st \in {Absent, "", "draft", "published", "archived"},
        pa \in {Absent, Nil, " ", "t1", "soon"}}
CommentRecords ==
    {Present([id |-> i, article_id |-> ar, user_id |-> "u1", body |-> b]) :
        i \in {Absent, Nil, " ", "c1", "c9"}, ar \in {"a1", ""},
        b \in {Absent, "hi", "dense", "long", "wide"}}
RecordsOf(resource) ==
    CASE resource = "users"    -> UserRecords
      [] resource = "articles" -> ArticleRecords
      [] OTHER                 -> CommentRecords

BatchInit ==
    /\ importJobs = << >> /\ exportJobs = << >>
    /\ uploads = << >> /\ exportFiles = << >> /\ reqs = << >> /\ etask = << >>
    /\ \E st \in InitialStores :
          users = st.users /\ articles = st.articles /\ comments = st.comments
    /\ \E res \in Resources : \E record \in RecordsOf(res) :
          itask = <<[NewImportTask(NewImportJob([key |-> "k1", resource |-> res], 1))
                       EXCEPT !.pc = "stream", !.closed = TRUE,
                              !.batch = <<record>>, !.job.total = 1]>>

BatchNext == \E j \in 1..Len(itask) : ConsumeEnd(j)

BatchSpec == BatchInit /\ [][BatchNext]_vars

\* --------------------------------------------- a streaming export on its own
\* GET /exports?resource=&format= (part_004, route table): StreamExport reads
\* the table page by page and writes each page to the response.
\* streaming requests in flight together, and rows per table
MaxStreams == 2
MaxRows == 3

StreamRows ==
    [users    |-> << [id |-> "u1", email |-> "a@x.io", name |-> "Ann", role |-> "admin",
                      active |-> TRUE, created_at |-> Now, updated_at |-> "t1"],
                     [id |-> "u2", email |-> "b@x.io", name |-> "Bea", role |-> "reader",
                      active |-> FALSE, created_at |-> "t1", updated_at |-> "t2"],
                     [id |-> "g1-1", email |-> "A@X.IO", name |-> "", role |-> "author",
                      active |-> TRUE, created_at |-> "t2", updated_at |-> Now],
                     [id |-> "u4", email |-> "c@x.io", name |-> "Cy", role |-> "admin",
                      active |-> FALSE, created_at |-> "t1", updated_at |-> "t1"] >>,
     articles |-> << [id |-> "a1", slug |-> "s1", title |-> "T1", body |-> "hi",
                      author_id |-> "u1", tags |-> "[\"x\",\"y\"]",
                      status |-> StatusPublished, published_at |-> "t1",
                      created_at |-> Now],
                     [id |-> "a2", slug |-> "s2", title |-> "T2", body |-> "",
                      author_id |-> "u2", tags |-> "", status |-> StatusDraft,
                      published_at |-> Nil, created_at |-> "t1"],
                     [id |-> "a3", slug |-> "s3", title |-> "T3", body |-> "hi",
                      author_id |-> "u1", tags |-> "[\"x\"]",
                      status |-> StatusPublished, published_at |-> "t2",
                      created_at |-> "t2"],
                     [id |-> "a4", slug |-> "s4", title |-> "T4", body |-> "hi",
                      author_id |-> "u1", tags |-> "", status |-> StatusDraft,
                      published_at |-> Nil, created_at |-> "t1"] >>,
     comments |-> << [id |-> "c1", article_id |-> "a1", user_id |-> "u1",
                      body |-> "hi", created_at |-> "t1"],
                     [id |-> "c2", article_id |-> "a1", user_id |-> "u2",
                      body |-> "long", created_at |-> Now],
                     [id |-> "c3", article_id |-> "a2", user_id |-> "u1",
                      body |-> "hi", created_at |-> "t2"],
                     [id |-> "c4", article_id |-> "a3", user_id |-> "u2",
                      body |-> "hi", created_at |-> "t1"] >>]

\* the stores a streaming export can find: the first n rows of each table
StreamStores ==
    {[users    |-> SubSeq(StreamRows.users, 1, n),
      articles |-> SubSeq(StreamRows.articles, 1, n),
      comments |-> SubSeq(StreamRows.comments, 1, n)] : n \in 0..MaxRows}

StreamInputs ==
    [resource : Resources \cup {"", "bogus"}, format : {"csv", "ndjson", "", "xml"}]

\* the header line stream* writes first for CSV
ExportHeader(resource) ==
    CASE resource = "users" ->
           <<"id", "email", "name", "role", "active", "created_at", "updated_at">>
      [] resource = "articles" ->
           <<"id", "slug", "title", "body", "author_id", "tags", "status",
             "published_at", "created_at">>
      [] OTHER -> <<"id", "article_id", "user_id", "body", "created_at">>

\* the line stream* writes for one row
StreamUserLine(u, format) ==
    IF format = "csv"
    THEN Row(<<u.id, u.email, u.name, u.role, FormatBool(u.active),
               FormatRFC3339(u.created_at), FormatRFC3339(u.updated_at)>>)
    ELSE Json([id |-> u.id, email |-> u.email, name |-> u.name, role |-> u.role,
               active |-> u.active, created_at |-> FormatRFC3339(u.created_at),
               updated_at |-> FormatRFC3339(u.updated_at)])

\* the NDJSON branch selects no tags column, so article.Tags is "" there and
\* the tag list written is empty
StreamArticleLine(a, format) ==
    IF format = "csv"
    THEN Row(<<a.id, a.slug, a.title, a.body, a.author_id,
               IF a.tags = "" THEN "[]" ELSE a.tags, a.status,
               IF a.published_at = Nil THEN "" ELSE FormatRFC3339(a.published_at),
               FormatRFC3339(a.created_at)>>)
    ELSE LET data == [id |-> a.id, slug |-> a.slug, title |-> a.title,
                      body |-> a.body, author_id |-> a.author_id,
                      tags |-> EmptyArray, status |-> a.status,
                      created_at |-> FormatRFC3339(a.created_at)]
         IN  Json(IF a.published_at = Nil THEN data
                  ELSE data @@ [published_at |-> FormatRFC3339(a.published_at)])

StreamCommentLine(c, format) ==
    IF format = "csv"
    THEN Row(<<c.id, c.article_id, c.user_id, c.body, FormatRFC3339(c.created_at)>>)
    ELSE Json([id |-> c.id, article_id |-> c.article_id, user_id |-> c.user_id,
               body |-> c.body, created_at |-> FormatRFC3339(c.created_at)])

StreamLine(resource, row, format) ==
    CASE resource = "users"    -> StreamUserLine(row, format)
      [] resource = "articles" -> StreamArticleLine(row, format)
      [] OTHER                 -> StreamCommentLine(row, format)

StreamLines(resource, rows, format) ==
    [i \in 1..Len(rows) |-> StreamLine(resource, rows[i], format)]

\* a request to StreamExport: out is the response body written so far; read is
\* a history field, the rows the page queries returned
NewStream(in) ==
    [kind |-> "stream", in |-> in, pc |-> "done", resp |-> Response(400, 0, ""),
     offset |-> 0, out |-> << >>, read |-> << >>]

\* StreamExport inserting an export_jobs row for the request, as CreateExport does
StreamExport_InsertsJob(in) ==
    /\ Len(reqs) < MaxStreams
    /\ reqs' = Append(reqs,
          IF in.resource \notin Resources \/ in.format \notin {"csv", "ndjson"}
          THEN NewStream(in)
          ELSE [NewStream(in) EXCEPT
                  !.pc = "page", !.resp = Response(200, 0, ""),
                  !.out = IF in.format = "csv"
                          THEN <<Row(ExportHeader(in.resource))>> ELSE << >>])
    /\ exportJobs' = Append(exportJobs,
          NewExportJob([key |-> "", resource |-> in.resource, format |-> in.format,
                        filters |-> << >>]))
    /\ UNCHANGED <<importJobs, tables, uploads, exportFiles, itask, etask>>

\* StreamExport, lines 41-80, and the top of stream*: the parameters are
\* checked, the response headers set and the CSV header line written
StreamExport(in) ==
    /\ Len(reqs) < MaxStreams
    /\ reqs' = Append(reqs,
          IF in.resource \notin Resources \/ in.format \notin {"csv", "ndjson"}
          THEN NewStream(in)
          ELSE [NewStream(in) EXCEPT
                  !.pc = "page", !.resp = Response(200, 0, ""),
                  !.out = IF in.format = "csv"
                          THEN <<Row(ExportHeader(in.resource))>> ELSE << >>])
    /\ UNCHANGED <<importJobs, exportJobs, tables, uploads, exportFiles, itask, etask>>

\* the page loop without offset += BatchSize
StreamPage_NoAdvance(r) ==
    /\ reqs[r].kind = "stream" /\ reqs[r].pc = "page"
    /\ LET q == reqs[r]
           page == Page(TableOf(q.in.resource), q.in.resource, << >>, q.offset)
       IN  reqs' = [reqs EXCEPT ![r] =
              IF page = << >>
              THEN [q EXCEPT !.pc = "done"]
              ELSE [q EXCEPT
                      !.out = @ \o StreamLines(q.in.resource, page, q.in.format),
                      !.read = @ \o page,
                      !.pc = IF Len(page) < ExportBatchSize THEN "done" ELSE "page"]]
    /\ UNCHANGED <<importJobs, exportJobs, tables, uploads, exportFiles, itask, etask>>

\* stream*, one iteration of the page loop
StreamPage(r) ==
    /\ reqs[r].kind = "stream" /\ reqs[r].pc = "page"
    /\ LET q == reqs[r]
           page == Page(TableOf(q.in.resource), q.in.resource, << >>, q.offset)
       IN  reqs' = [reqs EXCEPT ![r] =
              IF page = << >>
              THEN [q EXCEPT !.pc = "done"]
              ELSE [q EXCEPT
                      !.out = @ \o StreamLines(q.in.resource, page, q.in.format),
                      !.read = @ \o page,
                      !.offset = IF Len(page) < ExportBatchSize THEN @
                                 ELSE @ + ExportBatchSize,
                      !.pc = IF Len(page) < ExportBatchSize THEN "done" ELSE "page"]]
    /\ UNCHANGED <<importJobs, exportJobs, tables, uploads, exportFiles, itask, etask>>

StreamInit ==
    /\ importJobs = << >> /\ exportJobs = << >>
    /\ uploads = << >> /\ exportFiles = << >> /\ reqs = << >>
    /\ itask = << >> /\ etask = << >>
    /\ \E st \in StreamStores :
          users = st.users /\ articles = st.articles /\ comments = st.comments

StreamNext ==
    \/ \E in \in StreamInputs : StreamExport(in)
    \/ \E r \in 1..Len(reqs) : StreamPage(r)

\* c.Stream runs the loop to its end on the request's goroutine
StreamSpec ==
    /\ StreamInit /\ [][StreamNext]_vars
    /\ \A r \in 1..MaxStreams : WF_vars(r \in 1..Len(reqs) /\ StreamPage(r))

\* ------------------------------------------- an export imported again
\* The body of a finished streaming export is saved as a file and imported
\* into an empty database: the import job is taken up where ProcessImportJob
\* has opened the file, and job.file names the streaming request.
Reimport(r) ==
    /\ reqs[r].kind = "stream" /\ reqs[r].pc = "done" /\ reqs[r].resp.code = 200
    /\ importJobs = << >>
    /\ \A q \in 1..Len(reqs) : reqs[q].pc = "done"
    /\ LET job == [NewImportJob([key |-> "k1", resource |-> reqs[r].in.resource], r)
                     EXCEPT !.status = JobStatusProcessing]
       IN  /\ importJobs' = <<job>>
           /\ itask' = <<[NewImportTask(job) EXCEPT !.pc = "stream",
                                                    !.lines = reqs[r].out]>>
    /\ users' = << >> /\ articles' = << >> /\ comments' = << >>
    /\ UNCHANGED <<exportJobs, uploads, exportFiles, reqs, etask>>

RoundTripNext ==
    \/ importJobs = << >> /\ \E in \in StreamInputs : StreamExport(in)
    \/ \E r \in 1..Len(reqs) : StreamPage(r)
    \/ \E r \in 1..Len(reqs) : Reimport(r)
    \/ \E j \in ImportJobIds : ParserStep(j)
    \/ \E j \in ImportJobIds : DrainStep(j)
    \/ \E j \in ImportJobIds : ConsumeRecord(j)
    \/ \E j \in ImportJobIds : ConsumeEnd(j)
    \/ \E j \in ImportJobIds : CleanupSelect(j)
    \/ \E j \in ImportJobIds : CleanupDelete(j)
    \/ \E j \in ImportJobIds : ImportFinal(j)

RoundTripSpec == StreamInit /\ [][RoundTripNext]_vars

\* ================================================================== claims
Terminal == {JobStatusCompleted, JobStatusFailed}

\* a request that passes the checks of its handler (key given, resource known)
ValidCreate(q) ==
    /\ q.in.key # ""
    /\ q.kind = "import" => q.in.resource \in Resources

JobsOf(kind) == IF kind = "import" THEN importJobs ELSE exportJobs

\* C1: two answered creation calls of one kind with the same idempotency key
\* carry the same job identifier, and exactly one job row holds that key,
\* however the two calls interleave.
C1_SameKeySameJob ==
    \A r1, r2 \in 1..Len(reqs) :
        ( /\ r1 # r2
          /\ reqs[r1].kind = reqs[r2].kind
          /\ reqs[r1].in.key = reqs[r2].in.key
          /\ ValidCreate(reqs[r1]) /\ ValidCreate(reqs[r2])
          /\ reqs[r1].pc = "done" /\ reqs[r2].pc = "done" )
        => /\ reqs[r1].resp.job # 0
           /\ reqs[r1].resp.job = reqs[r2].resp.job
           /\ Cardinality({j \in 1..Len(JobsOf(reqs[r1].kind)) :
                             JobsOf(reqs[r1].kind)[j].key = reqs[r1].in.key}) = 1

\* C2: a creation request arriving when its idempotency key already belongs
\* to a stored job of that kind changes nothing (no upload, no job row
\* inserted or modified, no task started, no table touched) and is answered
\* with that job's identifier and its current status.
C2_ReplayNoSideEffect ==
    [][ ( /\ Len(reqs') = Len(reqs) + 1
          /\ reqs'[Len(reqs')].in.key # ""
          /\ FindByKey(JobsOf(reqs'[Len(reqs')].kind), reqs'[Len(reqs')].in.key) # 0 )
        => LET q == reqs'[Len(reqs')]
               jobs == JobsOf(q.kind)
           IN  /\ importJobs' = importJobs /\ exportJobs' = exportJobs
               /\ uploads' = uploads /\ exportFiles' = exportFiles
               /\ itask' = itask /\ etask' = etask
               /\ users' = users /\ articles' = articles /\ comments' = comments
               /\ q.pc = "done"
               /\ q.resp.code = 200
               /\ q.resp.job \in 1..Len(jobs)
               /\ jobs[q.resp.job].key = q.in.key
               /\ q.resp.status = jobs[q.resp.job].status ]_vars

\* a replay answered while the first job is still processing
C2_Witness ==
    \E r \in 1..Len(reqs) :
        /\ reqs[r].resp.code = 200
        /\ reqs[r].resp.status = JobStatusProcessing
        /\ reqs[r].kind = "import"

StatusStep(old, new) ==
    \/ old = new
    \/ old = JobStatusPending /\ new = JobStatusProcessing
    \/ old = JobStatusProcessing /\ new \in Terminal

\* C3: the persisted status of an import or export job moves only along
\* pending -> processing -> completed | failed, every job row starts pending,
\* and a row whose status is completed or failed never changes again.
C3_Lifecycle ==
    [][ /\ \A j \in 1..Len(importJobs) :
              /\ j <= Len(importJobs')
              /\ StatusStep(importJobs[j].status, importJobs'[j].status)
              /\ importJobs[j].status \in Terminal => importJobs'[j] = importJobs[j]
        /\ \A j \in 1..Len(exportJobs) :
              /\ j <= Len(exportJobs')
              /\ StatusStep(exportJobs[j].status, exportJobs'[j].status)
              /\ exportJobs[j].status \in Terminal => exportJobs'[j] = exportJobs[j]
        /\ \A j \in (Len(importJobs) + 1)..Len(importJobs') :
              importJobs'[j].status = JobStatusPending
        /\ \A j \in (Len(exportJobs) + 1)..Len(exportJobs') :
              exportJobs'[j].status = JobStatusPending ]_vars

\* an import job that failed next to an export job that completed with rows
C3_Witness ==
    /\ \E j \in 1..Len(importJobs) : importJobs[j].status = JobStatusFailed
    /\ \E j \in 1..Len(exportJobs) :
          exportJobs[j].status = JobStatusCompleted /\ exportJobs[j].total > 0

RECURSIVE DeliveredNDJSON(_)
\* the records a line-oriented JSON source holds: one per JSON object line,
\* up to the first line too long for the scanner
DeliveredNDJSON(lines) ==
    IF lines = << >> \/ NDJSONRead(Head(lines)) = "stop" THEN << >>
    ELSE (IF NDJSONRead(Head(lines)) = "record" THEN <<Head(lines).rec>> ELSE << >>)
         \o DeliveredNDJSON(Tail(lines))

RECURSIVE DeliveredRows(_, _)
DeliveredRows(headers, lines) ==
    IF lines = << >> THEN << >>
    ELSE (IF CSVRead(Head(lines)) = "record"
          THEN <<CSVRecord(headers, Head(lines).f)>> ELSE << >>)
         \o DeliveredRows(headers, Tail(lines))

RECURSIVE DeliveredCSV(_)
\* the records a delimited-text source holds: one per well-formed row after
\* the header row
DeliveredCSV(lines) ==
    IF lines = << >> \/ CSVRead(Head(lines)) = "error" THEN << >>
    ELSE IF CSVRead(Head(lines)) = "skip" THEN DeliveredCSV(Tail(lines))
    ELSE DeliveredRows(Head(lines).f, Tail(lines))

\* the records of job j's source, as its parser delivers them
SourceRecords(j) ==
    IF ParserOf(importJobs[j].resource) = "csv"
    THEN DeliveredCSV(SourceLines(j)) ELSE DeliveredNDJSON(SourceLines(j))

\* C5: a completed import job has success_count + fail_count = total_records,
\* and total_records is the number of records its parser delivered from the
\* source (skipped lines not counted), also after orphan reconciliation.
C5_CountInvariant ==
    \A j \in 1..Len(importJobs) :
        importJobs[j].status = JobStatusCompleted
        => /\ importJobs[j].success + importJobs[j].fail = importJobs[j].total
           /\ importJobs[j].total = Len(SourceRecords(j))

\* a completed job whose record count is not a multiple of the batch size and
\* whose counters the reconciliation adjusted
C5_Witness ==
    \E j \in 1..Len(importJobs) :
        /\ importJobs[j].status = JobStatusCompleted
        /\ importJobs[j].total % BatchSize # 0
        /\ importJobs[j].total > BatchSize
        /\ itask[j].orphanedCount > 0

NextTableOf(resource) ==
    CASE resource = "users" -> users' [] resource = "articles" -> articles' [] OTHER -> comments'

\* the natural keys carried by the valid records of job j's source
ImportedKeys(j) ==
    LET res == importJobs[j].resource
        recs == SourceRecords(j)
    IN  {Normalize(res, recs[i], "")[ConflictKey(res)] :
            i \in {n \in 1..Len(recs) : Outcome(res, recs[n], n).valid}}

RowsWith(table, col, v) == {i \in 1..Len(table) : table[i][col] = v}

UniqueKeys ==
    \A res \in Resources :
        \A a, b \in 1..Len(TableOf(res)) :
            a # b => /\ TableOf(res)[a][ConflictKey(res)] # TableOf(res)[b][ConflictKey(res)]
                     /\ TableOf(res)[a].id # TableOf(res)[b].id

\* job j processes a batch in this step; the batch it processes
BatchStep(j) == itask'[j].job.processed > itask[j].job.processed
BatchOf(j) ==
    IF itask[j].records # << >> /\ Len(itask[j].batch) + 1 >= BatchSize
    THEN Append(itask[j].batch, Head(itask[j].records))
    ELSE itask[j].batch

LastWith(entities, col, v) ==
    entities[CHOOSE i \in 1..Len(entities) :
                /\ entities[i][col] = v
                /\ \A n \in (i + 1)..Len(entities) : entities[n][col] # v]
FirstWith(entities, col, v) == entities[IndexOf(entities, col, v)]

NoOrphans ==
    /\ OrphanedArticles(articles, users) = << >>
    /\ OrphanedComments(comments, articles, users) = << >>

\* C7: whenever an import job reaches completed, every stored article's
\* author_id is the id of a stored user and every stored comment's article_id
\* and user_id are the ids of a stored article and a stored user.
C7_NoOrphansAtCompletion ==
    [][ \A j \in 1..Len(importJobs) :
          ( /\ importJobs[j].status # JobStatusCompleted
            /\ importJobs'[j].status = JobStatusCompleted )
          => NoOrphans' ]_vars

\* C8: a job one of whose batch writes failed at the storage layer ends
\* failed with a single synthetic error entry, and never completed.
C8_WriteFailureFailsJob ==
    \A j \in 1..Len(importJobs) :
        (itask[j].writeErrors > 0 /\ itask[j].pc = "done")
        => /\ importJobs[j].status = JobStatusFailed
           /\ Len(importJobs[j].errors) = 1
           /\ importJobs[j].errors[1].error # ""

\* C9: when the source cannot be opened the job is saved failed with
\* completed_at set, exactly one synthetic error entry and all counters zero;
\* that step touches no table, and the job neither parses nor reconciles.
C9_OpenFailure ==
    /\ [][ \A j \in 1..Len(itask) :
             (itask[j].pc = "open" /\ itask'[j].pc # "open" /\ itask'[j].pc # "stream")
             => /\ importJobs'[j].status = JobStatusFailed
                /\ importJobs'[j].completed_at # Nil
                /\ importJobs'[j].errors = <<SyntheticError("Failed to open file")>>
                /\ importJobs'[j].total = 0 /\ importJobs'[j].processed = 0
                /\ importJobs'[j].success = 0 /\ importJobs'[j].fail = 0
                /\ users' = users /\ articles' = articles /\ comments' = comments
                /\ itask'[j].pc = "done" ]_vars
    /\ [](\A j \in 1..Len(importJobs) :
             importJobs[j].status = JobStatusFailed
             => /\ itask[j].pc = "done"
                /\ itask[j].pos = 0 /\ itask[j].records = << >>
                /\ itask[j].orphanedCount = 0 /\ itask[j].orphanedErrors = << >>
                /\ itask[j].job = importJobs[j]
                /\ importJobs[j].completed_at # Nil
                /\ Len(importJobs[j].errors) = 1
                /\ importJobs[j].processed = 0)

\* an articles job failed on open while the store holds rows
C9_Witness ==
    \E j \in 1..Len(importJobs) :
        /\ importJobs[j].status = JobStatusFailed
        /\ importJobs[j].resource = "articles"
        /\ articles # << >>

\* the positions of job j's delivered records that fail validation or the gate
InvalidPositions(j) ==
    {i \in 1..Len(SourceRecords(j)) :
        ~Outcome(importJobs[j].resource, SourceRecords(j)[i], i).valid}

\* one validation result per invalid record, in source order, each carrying
\* the record's position among the delivered records as its row number
ValidationErrors(j) ==
    SeqOfPositions([i \in 1..Len(SourceRecords(j)) |->
                       Outcome(importJobs[j].resource, SourceRecords(j)[i], i)],
                   InvalidPositions(j), 1)

\* every stored row carries what validation and the gate require of a record
StoredRowsValid ==
    /\ \A i \in 1..Len(users) :
          /\ ValidateEmail(users[i].email)
          /\ users[i].role \in {"admin", "author", "reader"}
    /\ \A i \in 1..Len(articles) :
          /\ ValidateKebabCase(articles[i].slug)
          /\ articles[i].author_id # ""
    /\ \A i \in 1..Len(comments) :
          /\ comments[i].id # ""
          /\ comments[i].article_id # "" /\ comments[i].user_id # ""
          /\ BodyLen(comments[i].body) <= 3500

Finished(j) == itask[j].recordsDone /\ itask[j].errorsDone
IsRun(j, parser) == ParserOf(itask[j].job.resource) = parser
LinesOfKind(lines, kinds) == SelectSeq(lines, LAMBDA l : l.k \in kinds)

\* C11: a run of ParseNDJSON that was received to the end delivered exactly
\* the objects of the lines holding a JSON object, in input order, and one
\* error per other non-blank line, whatever precedes a line. (A line holding
\* valid JSON that is no object, and a line too long, are counted with the
\* lines that are not valid JSON.)
C11_NDJSONDelivery ==
    \A j \in 1..Len(itask) :
        (IsRun(j, "ndjson") /\ Finished(j))
        => /\ Len(itask[j].got) = Len(LinesOfKind(itask[j].lines, {"json"}))
           /\ \A i \in 1..Len(itask[j].got) :
                 itask[j].got[i] = LinesOfKind(itask[j].lines, {"json"})[i].rec
           /\ itask[j].gotErrors
                 = Len(LinesOfKind(itask[j].lines, {"bad", "scalar", "long"}))

\* the same for inputs every line of which fits the scanner buffer
C11_WithinLineLimit ==
    \A j \in 1..Len(itask) :
        (IsRun(j, "ndjson") /\ Finished(j)
            /\ LinesOfKind(itask[j].lines, {"long"}) = << >>)
        => /\ Len(itask[j].got) = Len(LinesOfKind(itask[j].lines, {"json"}))
           /\ \A i \in 1..Len(itask[j].got) :
                 itask[j].got[i] = LinesOfKind(itask[j].lines, {"json"})[i].rec
           /\ itask[j].gotErrors = Len(LinesOfKind(itask[j].lines, {"bad", "scalar"}))

\* C12: a completed articles or comments job counts in total_records every
\* JSON object line of its source, those after an over-long line included.
C12_LongLineSkipped ==
    \A j \in 1..Len(importJobs) :
        (importJobs[j].status = JobStatusCompleted
            /\ ParserOf(importJobs[j].resource) = "ndjson")
        => importJobs[j].total = Len(LinesOfKind(SourceLines(j), {"json"}))

\* C13: in every state of a parser run, whatever the order in which the
\* consumer receives from the two channels, either both channels were seen
\* closed or the parser or the consumer can take a step.
C13_NoDeadlock ==
    \A j \in 1..Len(itask) : Finished(j) \/ ENABLED ParserNext

\* the same for a consumer that receives from both channels at once
C13_BothAtOnce ==
    \A j \in 1..Len(itask) :
        itask[j].order = "both" => (Finished(j) \/ ENABLED ParserNext)

\* C14: a run of ParseCSV that was received to the end, on an input whose
\* first non-empty line is a well-formed row, delivered one record per
\* well-formed row after that line, each keyed by exactly the header names,
\* with "" for the columns a short row lacks and the extra values of a long
\* row dropped, and one error per malformed row; an empty or header-only
\* input delivered no record and no error.
C14_CSVDelivery ==
    \A j \in 1..Len(itask) :
        (IsRun(j, "csv") /\ Finished(j))
        => LET filled == LinesOfKind(itask[j].lines, {"row", "bad"})
               header == filled[1].f
               rows == LinesOfKind(Tail(filled), {"row"})
               got == itask[j].got
           IN  IF filled = << >>
               THEN got = << >> /\ itask[j].gotErrors = 0
               ELSE filled[1].k = "row"
                    => /\ Len(got) = Len(rows)
                       /\ itask[j].gotErrors = Len(LinesOfKind(Tail(filled), {"bad"}))
                       /\ \A i \in 1..Len(got) :
                             /\ DOMAIN got[i] = Range(header)
                             /\ \A n \in 1..Len(header) :
                                   (\A m \in 1..Len(header) : header[m] = header[n] => m = n)
                                   => got[i][header[n]]
                                        = IF n <= Len(rows[i].f) THEN rows[i].f[n] ELSE ""

\* a run received to the end whose input is a two-column header, a one-value
\* row and a three-value row
C14_Witness ==
    \E j \in 1..Len(itask) :
        /\ IsRun(j, "csv") /\ Finished(j)
        /\ itask[j].lines = <<Row(<<"id", "email">>), Row(<<"u1">>),
                              Row(<<"u2", "b@x.io", "extra">>)>>
        /\ itask[j].got = <<[id |-> "u1", email |-> ""], [id |-> "u2", email |-> "b@x.io"]>>

\* ------------------------------------------------------- validation claims
\* the field is missing, null or blank
Blank(record, f) == f \notin DOMAIN record \/ record[f] \in {Nil, "", " "}
NewErrors(j) == SubSeq(itask'[j].allErrors, Len(itask[j].allErrors) + 1,
                       Len(itask'[j].allErrors))
ErrorFields(result) == {result.errors[k][1] : k \in 1..Len(result.errors)}

\* C15: an article record with status "draft" and a non-blank published_at
\* gets an invalid verdict from ValidateArticleRecord whatever its other
\* fields are, and the batch that carries it stores nothing for it.
C15_DraftRejected ==
    [][ \A j \in 1..Len(itask) :
          (BatchStep(j) /\ itask[j].job.resource = "articles")
          => \A i \in 1..Len(BatchOf(j)) :
               LET record == BatchOf(j)[i]
                   row == itask[j].rowNum + i - 1
               IN  (~Blank(record, "status") /\ record["status"] = StatusDraft
                       /\ ~Blank(record, "published_at"))
                   => /\ ~ValidateArticleRecord(record, row).valid
                      /\ \E e \in Range(NewErrors(j)) :
                            e.row = row /\ "published_at" \in ErrorFields(e)
                      /\ Len(BatchOf(j)) = 1 => articles' = articles ]_vars

\* a draft with a timestamp and nothing else wrong was rejected for that alone
C15_Witness ==
    \E j \in 1..Len(itask) :
        /\ itask[j].job.resource = "articles"
        /\ itask[j].job.processed = 1 /\ itask[j].job.fail = 1
        /\ Len(itask[j].allErrors) = 1
        /\ ErrorFields(itask[j].allErrors[1]) = {"published_at"}

\* C16: no stored article is a draft with a publication timestamp.
C16_NoDraftWithTimestamp ==
    \A i \in 1..Len(articles) :
        ~(articles[i].status = StatusDraft /\ articles[i].published_at # Nil)

\* C17: every stored article's status is draft or published.
C17_StatusEnum ==
    \A i \in 1..Len(articles) : articles[i].status \in {StatusDraft, StatusPublished}

\* C18: no two stored users have e-mail addresses that are equal when
\* lower-cased.
C18_CaseInsensitiveEmail ==
    \A a, b \in 1..Len(users) :
        a # b => ToLower(users[a].email) # ToLower(users[b].email)

\* C19: a comment record whose body has more than 500 words is counted as
\* failed and not stored, and a body of at most 500 words gets no error on
\* field body, whatever its length.
C19_WordLimit ==
    [][ \A j \in 1..Len(itask) :
          (BatchStep(j) /\ itask[j].job.resource = "comments" /\ Len(BatchOf(j)) = 1)
          => LET record == BatchOf(j)[1]
                 words == IF Blank(record, "body") THEN 0 ELSE CountWords(record["body"])
             IN  IF words > 500
                 THEN /\ itask'[j].job.fail = itask[j].job.fail + 1
                      /\ comments' = comments
                 ELSE \A e \in Range(NewErrors(j)) : "body" \notin ErrorFields(e) ]_vars

\* the identifiers a comment source or an earlier import supplied
SuppliedCommentIds ==
    UNION {{st.comments[i].id : i \in 1..Len(st.comments)} : st \in InitialStores} \cup
    {record["id"] : record \in {r \in CommentRecords : ~Blank(r, "id")}}

\* C20: a comment record without an id (absent, null or blank) is not stored
\* and gets no generated identifier: it is counted once as failed, with one
\* error entry naming field id; every stored comment has a non-blank id that
\* a source record supplied.
C20_CommentIdRequired ==
    /\ [](\A i \in 1..Len(comments) :
             /\ comments[i].id # ""
             /\ comments[i].id \in SuppliedCommentIds
             /\ \A n \in 1..Len(UuidTable) : comments[i].id \notin Range(UuidTable[n]))
    /\ [][ \A j \in 1..Len(itask) :
             (BatchStep(j) /\ itask[j].job.resource = "comments" /\ Len(BatchOf(j)) = 1
                 /\ Blank(BatchOf(j)[1], "id"))
             => /\ comments' = comments
                /\ itask'[j].job.fail = itask[j].job.fail + 1
                /\ itask'[j].job.success = itask[j].job.success
                /\ Len(NewErrors(j)) = 1
                /\ NewErrors(j)[1].row = itask[j].rowNum
                /\ "id" \in ErrorFields(NewErrors(j)[1]) ]_vars

\* a comment without an id field and nothing else wrong was counted as failed
\* for field id alone, and the store is as it was
C20_Witness ==
    \E j \in 1..Len(itask) :
        /\ itask[j].job.resource = "comments"
        /\ itask[j].job.fail = 1 /\ itask[j].job.success = 0
        /\ "id" \notin DOMAIN itask[j].batch[1]
        /\ Len(itask[j].allErrors) = 1
        /\ ErrorFields(itask[j].allErrors[1]) = {"id"}
        /\ comments = SeededStore.comments

\* ---------------------------------------------------------------- exports
ExportedRows(j) == exportFiles[exportJobs[j].file].rows

\* C21: for a completed filtered export job every row of the output file
\* satisfies every supplied filter, total_records is the number of rows in the
\* file, and that number is the number of stored rows that matched the
\* filters when the job started, whatever other jobs run meanwhile
C21_FilteredExportSnapshot ==
    \A j \in ExportJobIds :
        LET job == exportJobs[j]
        IN  (job.status = JobStatusCompleted /\ DOMAIN job.filters # {}) =>
                /\ \A i \in 1..Len(ExportedRows(j)) :
                       Matches(job.resource, ExportedRows(j)[i], job.filters)
                /\ job.total = Len(ExportedRows(j))
                /\ Len(ExportedRows(j)) = etask[j].matchingAtStart

\* supporting: the same, for an export during which no import job was active
C21_QuietExport ==
    \A j \in ExportJobIds :
        LET job == exportJobs[j]
        IN  (job.status = JobStatusCompleted /\ DOMAIN job.filters # {}
             /\ importJobs = << >>) =>
                /\ \A i \in 1..Len(ExportedRows(j)) :
                       Matches(job.resource, ExportedRows(j)[i], job.filters)
                /\ job.total = Len(ExportedRows(j))
                /\ Len(ExportedRows(j)) = etask[j].matchingAtStart

\* a streaming export that has returned
Streamed(r) == reqs[r].kind = "stream" /\ reqs[r].pc = "done" /\ reqs[r].resp.code = 200

\* C22: with no write to the table during the export, StreamExport writes the
\* header line (CSV) and then every stored row of the requested kind exactly
\* once, in table order, and terminates, for every row count; the loop stops
\* at the first page shorter than the page size
StreamedSoFar ==
    \A r \in 1..Len(reqs) :
        LET q == reqs[r]
            table == TableOf(q.in.resource)
            head == IF q.in.format = "csv"
                    THEN <<Row(ExportHeader(q.in.resource))>> ELSE << >>
        IN  /\ Streamed(r) =>
                 q.out = head \o StreamLines(q.in.resource, table, q.in.format)
            /\ (q.kind = "stream" /\ q.pc = "page") =>
                 /\ q.offset % ExportBatchSize = 0
                 /\ q.offset <= Len(table)
                 /\ q.out = head \o StreamLines(q.in.resource,
                                        SubSeq(table, 1, q.offset), q.in.format)
StreamStopsAtShortPage ==
    \A r \in 1..Len(reqs) :
        (/\ reqs[r].kind = "stream" /\ reqs[r].pc = "page"
         /\ reqs'[r] # reqs[r] /\ reqs'[r].pc = "page") =>
            /\ reqs'[r].offset = reqs[r].offset + ExportBatchSize
            /\ Len(reqs'[r].read) = Len(reqs[r].read) + ExportBatchSize
StreamStep(r) ==
    /\ r \in 1..Len(reqs') /\ reqs'[r].kind = "stream"
    /\ r \in 1..Len(reqs) => reqs'[r] # reqs[r]

\* C23: a streaming export creates, modifies and deletes no job row and no
\* user, article or comment row: import_jobs, export_jobs and the data tables
\* are the same after each of its steps, whether it is served or rejected
C23_StreamChangesNothing ==
    [][(\E r \in 1..MaxStreams : StreamStep(r)) =>
          UNCHANGED <<importJobs, exportJobs, users, articles, comments,
                      uploads, exportFiles>>]_vars

\* one streaming export was rejected and another ran to its end over a
\* non-empty table
C23_Witness ==
    \E r, q \in 1..Len(reqs) :
        /\ reqs[r].kind = "stream" /\ reqs[r].resp.code = 400
        /\ Streamed(q) /\ Len(reqs[q].read) > 0

\* the canonical fields of a stored row as an export states them: every field,
\* the timestamps in their RFC 3339 text
Canonical(resource, row) ==
    CASE resource = "users" ->
           [row EXCEPT !.created_at = FormatRFC3339(@), !.updated_at = FormatRFC3339(@)]
      [] resource = "articles" ->
           [row EXCEPT !.created_at = FormatRFC3339(@),
                       !.published_at = IF @ = Nil THEN Nil ELSE FormatRFC3339(@)]
      [] OTHER -> [row EXCEPT !.created_at = FormatRFC3339(@)]

RoundTripHolds(j) ==
    LET res == importJobs[j].resource
        exported == reqs[importJobs[j].file].read
    IN  importJobs[j].status = JobStatusCompleted =>
            Range(TableOf(res)) = {Canonical(res, exported[i]) : i \in 1..Len(exported)}

\* C24: for each resource kind and each format, exporting the stored rows and
\* importing the export output in the same format into an empty store yields
\* rows whose canonical fields (tags and timestamps included) are those of
\* the exported rows
C24_RoundTrip == \A j \in ImportJobIds : RoundTripHolds(j)

\* supporting: the round trip of users exported as CSV
C24_UsersCSVRoundTrip ==
    \A j \in ImportJobIds :
        (/\ importJobs[j].resource = "users"
         /\ reqs[importJobs[j].file].in.format = "csv") => RoundTripHolds(j)

\* ------------------------------------------------------ creation requests
TasksOf(kind) == IF kind = "import" THEN itask ELSE etask

\* request r, which arrived when no stored job held its key and passes the
\* checks of its handler, is answered in this step
AnswersCreate(r) ==
    /\ r \in 1..Len(reqs) /\ reqs[r].kind \in {"import", "export"}
    /\ reqs[r].pc = "create" /\ reqs'[r].pc = "done"
    /\ ValidCreate(reqs[r])

\* the step inserts one pending job row for r, starts one task for that row
\* and answers 202 with the row's identifier while the task has yet to run
CreatesJob(r) ==
    LET kind == reqs[r].kind
        jobs == IF kind = "import" THEN importJobs ELSE exportJobs
        jobsAfter == IF kind = "import" THEN importJobs' ELSE exportJobs'
        tasksAfter == IF kind = "import" THEN itask' ELSE etask'
        n == Len(jobs) + 1
    IN  /\ Len(jobsAfter) = n /\ SubSeq(jobsAfter, 1, n - 1) = jobs
        /\ jobsAfter[n].key = reqs[r].in.key
        /\ jobsAfter[n].status = JobStatusPending
        /\ Len(tasksAfter) = n /\ tasksAfter[n].pc = "start"
        /\ reqs'[r].resp = Response(202, n, JobStatusPending)

\* each step starts at most one task, and only while answering a request
OneTaskPerRequest ==
    /\ Len(itask') + Len(etask') <= Len(itask) + Len(etask) + 1
    /\ Len(itask') + Len(etask') > Len(itask) + Len(etask) =>
           \E r \in 1..Len(reqs) : reqs[r].pc = "create" /\ reqs'[r].resp.code = 202

\* C25: every import or asynchronous export creation request that is not an
\* idempotent replay (no stored job held its key when it arrived) inserts one
\* job row in state pending, starts exactly one background task for it and
\* returns the job identifier with status pending without waiting for the
\* task; no request starts more than one task
C25_OneTaskPerCreation ==
    [][ /\ \A r \in 1..MaxRequests : AnswersCreate(r) => CreatesJob(r)
        /\ OneTaskPerRequest ]_vars

\* supporting: the same for a request whose key no other request carries
C25_SoleKeyCreation ==
    [][ /\ \A r \in 1..MaxRequests :
             (/\ AnswersCreate(r)
              /\ \A q \in 1..Len(reqs) :
                    (q # r /\ reqs[q].kind = reqs[r].kind) => reqs[q].in.key # reqs[r].in.key)
             => CreatesJob(r)
        /\ OneTaskPerRequest ]_vars

\* ------------------------------------------------- stored rows and counters
\* the only request so far is the import of job 1, into the empty store: a
\* table the job does not write is still empty
SoleImportIntoEmptyStore ==
    /\ Len(reqs) = 1 /\ Len(importJobs) = 1 /\ exportJobs = << >>
    /\ IF importJobs[1].resource = "users" THEN articles = << >> ELSE users = << >>

\* C26: after an import job of kind K into a store that held no row of kind K
\* completes, with no other job running, the number of stored rows of kind K
\* equals the job's success_count, also for files that repeat a natural key
\* or an identifier
C26_RowCountIsSuccessCount ==
    (SoleImportIntoEmptyStore /\ importJobs[1].status = JobStatusCompleted) =>
        Len(TableOf(importJobs[1].resource)) = importJobs[1].success

\* supporting: the same for the source files that repeat no key
C26_DistinctKeys ==
    (/\ SoleImportIntoEmptyStore /\ importJobs[1].status = JobStatusCompleted
     /\ uploads[importJobs[1].file] = "users1") =>
        Len(TableOf(importJobs[1].resource)) = importJobs[1].success

\* the rules of the user validator a record violates, in the order checked
UserRulesViolated(record) ==
    LET email == IF Blank(record, "email") THEN "" ELSE record["email"]
        active == IF Blank(record, "active") THEN "" ELSE record["active"]
    IN  (IF email = "" \/ email \notin {"a@x.io", "b@x.io", "c@x.io", "A@X.IO"}
         THEN <<"email">> ELSE << >>)
        \o (IF Blank(record, "role") THEN <<"role">> ELSE << >>)
        \o (IF active \notin {"true", "false", "TRUE", "FALSE"}
            THEN <<"active">> ELSE << >>)

\* C27: ValidateUserRecord returns valid exactly when the email is non-blank
\* and well-formed, the role is non-blank and active is "true" or "false"
\* ignoring case; the outcome lists one error for each violated rule, and the
\* verdict is the same whatever the store holds
C27_UserRules ==
    [][ \A j \in 1..Len(itask) :
          (BatchStep(j) /\ itask[j].job.resource = "users")
          => \A i \in 1..Len(BatchOf(j)) :
               LET record == BatchOf(j)[i]
                   row == itask[j].rowNum + i - 1
                   result == ValidateUserRecord(record, row)
                   violated == UserRulesViolated(record)
               IN  /\ result.valid <=> violated = << >>
                   /\ [k \in 1..Len(result.errors) |-> result.errors[k][1]] = violated
                   /\ Len(BatchOf(j)) = 1 =>
                         NewErrors(j) = IF violated = << >> THEN << >> ELSE <<result>> ]_vars

\* a record violating the three rules at once got three errors
C27_Witness ==
    \E j \in 1..Len(itask) :
        /\ itask[j].job.resource = "users" /\ itask[j].job.fail = 1
        /\ Len(itask[j].allErrors) = 1
        /\ Len(itask[j].allErrors[1].errors) = 3
        /\ ErrorFields(itask[j].allErrors[1]) = {"email", "role", "active"}

\* --------------------------------------------------------- parser and format
\* C28: the parser applied to an import job's source is the one of the
\* source's format, for every resource kind, so that a valid file of either
\* format (here: the output of an export in that format) yields its records
C28_ParserByFormat ==
    \A j \in ImportJobIds :
        LET source == reqs[importJobs[j].file]
        IN  importJobs[j].status = JobStatusCompleted =>
                /\ source.read # << >> =>
                       ParserOf(importJobs[j].resource) = source.in.format
                /\ importJobs[j].total = Len(source.read)

\* supporting: the files whose format is the one the resource's parser reads
C28_MatchingFormat ==
    \A j \in ImportJobIds :
        LET source == reqs[importJobs[j].file]
        IN  (/\ importJobs[j].status = JobStatusCompleted
             /\ ParserOf(importJobs[j].resource) = source.in.format) =>
                importJobs[j].total = Len(source.read)

\* ------------------------------------------------------- order of the steps
\* job j's task has opened, or tried to open, its source file, or has parsed,
\* received or processed a record of it
HasTouchedSource(j) ==
    LET t == itask[j]
    IN  \/ t.pc \notin {"start", "open"}
        \/ t.lines # << >> \/ t.pos > 0 \/ t.records # << >> \/ t.batch # << >>
        \/ t.job.total > 0 \/ t.batchesProcessed > 0

\* C29: in every execution of an import job the status processing is persisted
\* before the source file is opened and before any record is parsed or
\* written; no user, article or comment row is written by a job whose
\* persisted status is still pending
C29_ProcessingBeforeWork ==
    /\ [](\A j \in ImportJobIds :
            (itask[j].pc # "start" \/ HasTouchedSource(j)) =>
                importJobs[j].status # JobStatusPending)
    /\ [][\A j \in ImportJobIds :
            (itask'[j] # itask[j] /\ <<users, articles, comments>>' # <<users, articles, comments>>)
                => importJobs[j].status # JobStatusPending]_vars

\* a job whose persisted status is processing has written a batch
C29_Witness ==
    \E j \in ImportJobIds :
        /\ importJobs[j].status = JobStatusProcessing
        /\ itask[j].batchesProcessed > 0
        /\ importJobs[j].success > 0
        /\ Len(TableOf(importJobs[j].resource)) > 0

\* every record the parser delivered has gone through a batch
AllBatchesWritten(j) ==
    LET t == itask[j]
    IN  /\ t.closed /\ t.pos >= Len(t.lines) /\ t.records = << >>
        /\ t.job.processed = t.job.total

Reconciled(j) == importJobs[j].resource \in {"articles", "comments"}

\* C30: the status completed is persisted for an import job only after every
\* batch of its source has been written and, for article and comment imports,
\* after the orphan reconciliation pass has finished; the pass runs exactly
\* once per such job (its scan is entered once, after the last batch, and
\* never again) and never before the last batch is written
C30_CompletedAfterReconciliation ==
    /\ [](\A j \in ImportJobIds :
            importJobs[j].status = JobStatusCompleted =>
                /\ AllBatchesWritten(j)
                /\ itask[j].pc = "done" /\ itask[j].orphaned = << >>)
    /\ [](\A j \in ImportJobIds :
            itask[j].pc \in {"cleanup", "delete"} =>
                /\ Reconciled(j) /\ AllBatchesWritten(j)
                /\ importJobs[j].status = JobStatusProcessing)
    /\ [][\A j \in ImportJobIds :
            LET pc == itask[j].pc
                next == itask'[j].pc
            IN  /\ (pc # "cleanup" /\ next = "cleanup") => pc = "stream"
                /\ pc = "cleanup" => next \in {"cleanup", "delete", "final"}
                /\ pc = "delete" => next \in {"delete", "final"}
                /\ (pc # "final" /\ next = "final") =>
                      IF Reconciled(j) THEN pc \in {"cleanup", "delete"}
                      ELSE pc = "stream"
                /\ pc = "final" => next \in {"final", "done"}
                /\ pc = "done" => next = "done"
                /\ (importJobs[j].status # JobStatusCompleted
                    /\ importJobs'[j].status = JobStatusCompleted) => pc = "final"
                /\ (pc = "stream" /\ next # "stream") =>
                      /\ itask[j].closed /\ itask[j].records = << >>
                      /\ itask'[j].job.processed = itask'[j].job.total]_vars

\* an import of comments completed after its reconciliation deleted rows
C30_Witness ==
    \E j \in ImportJobIds :
        /\ importJobs[j].status = JobStatusCompleted
        /\ importJobs[j].resource = "comments"
        /\ itask[j].orphanedCount > 0
        /\ itask[j].batchesProcessed > 0

\* ------------------------------------------------------ persisted counters
Counters(job) == <<job.total, job.processed, job.success, job.fail>>

\* C31: the counters of a running import job are persisted only at batch
\* boundaries: every persisted state of a job in status processing has
\* processed_count = total_records = success_count + fail_count with
\* processed_count a multiple of the batch size, and the records of a batch
\* are not in the persisted counters before that batch's write was issued
C31_CountersAtBatchBoundaries ==
    /\ [](\A j \in ImportJobIds :
            importJobs[j].status = JobStatusProcessing =>
                /\ importJobs[j].processed = importJobs[j].total
                /\ importJobs[j].total = importJobs[j].success + importJobs[j].fail
                /\ importJobs[j].processed % BatchSize = 0
                /\ importJobs[j].total <= itask[j].job.processed)
    /\ [][\A j \in ImportJobIds :
            (/\ importJobs'[j].status = JobStatusProcessing
             /\ Counters(importJobs'[j]) # Counters(importJobs[j]))
            => /\ BatchStep(j)
               /\ Len(BatchOf(j)) = BatchSize
               /\ importJobs'[j].processed = importJobs[j].processed + BatchSize]_vars

\* a running job whose persisted counters hold one batch while a further
\* record has been received
C31_Witness ==
    \E j \in ImportJobIds :
        /\ importJobs[j].status = JobStatusProcessing
        /\ importJobs[j].processed = BatchSize
        /\ itask[j].job.total > BatchSize

\* ------------------------------------------------------ orphan reconciliation
\* job j's reconciliation handles the next row of its scan in this step
DeletesOrphan(j) ==
    /\ itask[j].pc = "delete"
    /\ Len(itask'[j].orphaned) < Len(itask[j].orphaned)

\* C32: for each row the orphan reconciliation of a job deletes, exactly one
\* validation outcome for that row is appended to the error list and, when
\* the pass ends, success_count has decreased and fail_count increased by
\* one per such row; for a deleted comment the outcome names article_id when
\* the article is missing, user_id when the user is missing, both when both
C32_OrphanReclassified ==
    [][\A j \in ImportJobIds :
          DeletesOrphan(j) =>
            LET t == itask[j]
                o == Head(t.orphaned)
                outs == itask'[j].orphanedErrors
                out == outs[Len(outs)]
                res == t.job.resource
            IN  /\ Len(outs) = Len(t.orphanedErrors) + 1
                /\ out.id = o.id /\ ~out.valid
                /\ ~HasRow(IF res = "articles" THEN articles' ELSE comments', "id", o.id)
                /\ res = "comments" =>
                      /\ "article_id" \in ErrorFields(out)
                            <=> ~HasRow(articles', "id", o.article_id)
                      /\ "user_id" \in ErrorFields(out)
                            <=> ~HasRow(users', "id", o.user_id)
                      /\ Len(out.errors) = Cardinality(ErrorFields(out))
                /\ res = "articles" => ErrorFields(out) = {"author_id"}
                /\ IF itask'[j].orphaned = << >>
                   THEN /\ itask'[j].job.success = t.job.success - Len(outs)
                        /\ itask'[j].job.fail = t.job.fail + Len(outs)
                        /\ itask'[j].job.errors = t.job.errors \o outs
                   ELSE itask'[j].job = t.job]_vars

\* a comment was deleted for both of its references and the job completed
C32_Witness ==
    \E j \in ImportJobIds :
        /\ importJobs[j].status = JobStatusCompleted
        /\ importJobs[j].resource = "comments"
        /\ \E k \in 1..Len(importJobs[j].errors) :
              /\ importJobs[j].errors[k].row = 0
              /\ ErrorFields(importJobs[j].errors[k]) = {"article_id", "user_id"}

\* ------------------------------------------------------------- row numbers
\* the record job j's parser makes of line k of its source (Nil: no record)
RecordAtLine(j, k) ==
    LET lines == itask[j].lines
    IN  IF k \notin 1..Len(lines) THEN Nil
        ELSE IF ParserOf(itask[j].job.resource) = "csv"
        THEN IF k > 1 /\ CSVRead(lines[1]) = "record" /\ CSVRead(lines[k]) = "record"
             THEN CSVRecord(lines[1].f, lines[k].f) ELSE Nil
        ELSE IF NDJSONRead(lines[k]) = "record" THEN lines[k].rec ELSE Nil

\* C33: the row number carried by a validation outcome is the 1-based
\* position in the source of the record the outcome is about, the header
\* row of a CSV file counted, whether or not earlier lines were skipped
C33_RowIsSourcePosition ==
    [][\A j \in ImportJobIds :
          BatchStep(j) =>
             \A e \in Range(NewErrors(j)) :
                 LET i == e.row - itask[j].rowNum + 1
                 IN  RecordAtLine(j, e.row) = BatchOf(j)[i]]_vars

\* what the code numbers: the position among the records the parser delivered
C33_RowIsDeliveryOrder ==
    [][\A j \in ImportJobIds :
          BatchStep(j) =>
             \A e \in Range(NewErrors(j)) :
                 /\ e.row \in itask[j].rowNum..(itask[j].rowNum + Len(BatchOf(j)) - 1)
                 /\ e.row <= itask'[j].job.total]_vars

\* --------------------------------------------------- export storage errors
\* C34: an export job is completed only if every page query succeeded and
\* every matching row was written (no import running meanwhile); a job one of
\* whose page queries returned a storage error ends failed, with no output
\* location
C34_ExportFailsOnQueryError ==
    \A j \in ExportJobIds :
        LET job == exportJobs[j]
        IN  /\ job.status = JobStatusCompleted =>
                  /\ ~etask[j].queryError
                  /\ importJobs = << >> =>
                        ExportedRows(j) = Matching(job.resource, job.filters)
            /\ (etask[j].queryError /\ etask[j].pc = "done") =>
                  /\ job.status = JobStatusFailed
                  /\ job.download_url = ""

\* supporting: with every page query answered, a completed export of a quiet
\* store holds every matching row
C34_NoQueryError ==
    \A j \in ExportJobIds :
        LET job == exportJobs[j]
        IN  (job.status = JobStatusCompleted /\ ~etask[j].queryError
                /\ importJobs = << >>) =>
                ExportedRows(j) = Matching(job.resource, job.filters)

\* ------------------------------------------------------------ terminal fields
\* C35: for every job completed_at is set exactly when the persisted status
\* is completed or failed, an export job has a download_url exactly when its
\* status is completed, and a status read of a pending or processing job
\* returns neither a completed_at nor a download_url
C35_TerminalFields ==
    /\ \A j \in ImportJobIds :
          /\ importJobs[j].completed_at # Nil <=> importJobs[j].status \in Terminal
          /\ importJobs[j].status \notin Terminal =>
                "completed_at" \notin DOMAIN GetImport(j)
    /\ \A j \in ExportJobIds :
          /\ exportJobs[j].completed_at # Nil <=> exportJobs[j].status \in Terminal
          /\ exportJobs[j].download_url # "" <=>
                exportJobs[j].status = JobStatusCompleted
          /\ exportJobs[j].status \notin Terminal =>
                DOMAIN GetExport(j) \cap {"completed_at", "download_url"} = {}

\* an export job failed and its status read shows completed_at and no
\* download_url, while an import job is read in state processing
C35_Witness ==
    /\ \E j \in ExportJobIds :
          /\ exportJobs[j].status = JobStatusFailed
          /\ "completed_at" \in DOMAIN GetExport(j)
          /\ "download_url" \notin DOMAIN GetExport(j)
    /\ \E j \in ImportJobIds :
          /\ GetImport(j).status = JobStatusProcessing
          /\ GetImport(j).processed_count > 0

\* ------------------------------------------------------------ counter ranges
\* C36: in every persisted state of every import job the four counters are
\* non-negative and success_count <= processed_count, reconciliation
\* included, under every interleaving of user, article and comment imports
C36_CountersInRange ==
    \A j \in ImportJobIds :
        LET job == importJobs[j]
        IN  /\ job.total >= 0 /\ job.processed >= 0
            /\ job.success >= 0 /\ job.fail >= 0
            /\ job.success <= job.processed

\* supporting: until the reconciliation has run the counters are in range
C36_InRangeBeforeReconciliation ==
    \A j \in ImportJobIds :
        LET job == importJobs[j]
        IN  job.status # JobStatusCompleted =>
               /\ job.total >= 0 /\ job.processed >= 0
               /\ job.success >= 0 /\ job.fail >= 0
               /\ job.success <= job.processed

\* ------------------------------------------------------------- the error list
\* C37: for every completed import job the number of entries of its error
\* list is its fail_count: the entries are the outcomes of the records that
\* failed in their batches followed by one outcome per row the
\* reconciliation handled
C37_ErrorListMatchesFailCount ==
    \A j \in ImportJobIds :
        importJobs[j].status = JobStatusCompleted =>
            /\ Len(importJobs[j].errors) = importJobs[j].fail
            /\ importJobs[j].errors = itask[j].allErrors \o itask[j].orphanedErrors
            /\ \A k \in 1..Len(importJobs[j].errors) : ~importJobs[j].errors[k].valid

\* a completed job lists a record that failed validation in its second batch,
\* one that failed in its first, and a row the reconciliation deleted
C37_Witness ==
    \E j \in ImportJobIds :
        /\ importJobs[j].status = JobStatusCompleted
        /\ importJobs[j].fail >= 2
        /\ \E k \in 1..Len(importJobs[j].errors) : importJobs[j].errors[k].row > BatchSize
        /\ \E k \in 1..Len(importJobs[j].errors) : importJobs[j].errors[k].row = 0

\* --------------------------------------------------- one job row per key
DistinctKeys(jobs) ==
    \A i, k \in 1..Len(jobs) : jobs[i].key = jobs[k].key => i = k

\* the insert of request r is rejected in this step
InsertRejected(r) ==
    /\ r \in 1..Len(reqs) /\ reqs[r].pc = "create"
    /\ reqs'[r].pc = "done" /\ reqs'[r].resp.code = 500

\* C38: under every interleaving of concurrent creation requests each job
\* table holds at most one row per idempotency key, each job row has one
\* background task, started by the step that inserted the row, and a request
\* whose insert the unique key rejects starts no task
C38_OneRowPerKey ==
    /\ [](/\ DistinctKeys(importJobs) /\ DistinctKeys(exportJobs)
          /\ Len(itask) = Len(importJobs) /\ Len(etask) = Len(exportJobs)
          /\ \A j \in ImportJobIds : itask[j].job.key = importJobs[j].key
          /\ \A j \in ExportJobIds : etask[j].job.key = exportJobs[j].key)
    /\ [][/\ Len(itask') - Len(itask) = Len(importJobs') - Len(importJobs)
          /\ Len(etask') - Len(etask) = Len(exportJobs') - Len(exportJobs)
          /\ Len(itask') - Len(itask) \in {0, 1}
          /\ Len(etask') - Len(etask) \in {0, 1}
          /\ \A r \in 1..MaxRequests :
                InsertRejected(r) =>
                    /\ itask' = itask /\ etask' = etask
                    /\ importJobs' = importJobs /\ exportJobs' = exportJobs]_vars

\* two requests with one key passed the lookup together; one insert was
\* rejected, and the table holds the other's row with its task
C38_Witness ==
    \E r, q \in 1..Len(reqs) :
        /\ reqs[r].kind = reqs[q].kind /\ reqs[r].in.key = reqs[q].in.key
        /\ reqs[r].pc = "done" /\ reqs[r].resp.code = 500
        /\ reqs[q].pc = "done" /\ reqs[q].resp.code = 202
        /\ Len(TasksOf(reqs[q].kind)) = 1

\* ------------------------------------------------- rejected creation requests
\* creation request r is answered with an error in this step
ErrorAnswered(r) ==
    /\ r \in 1..Len(reqs') /\ reqs'[r].kind \in {"import", "export"}
    /\ reqs'[r].pc = "done" /\ reqs'[r].resp.code >= 400
    /\ r \in 1..Len(reqs) => reqs[r].pc # "done"

\* C39: a creation request answered with an error leaves no side effect: no
\* upload file remains, no job row exists for it and no task was started
C39_ErrorLeavesNothing ==
    [][\A r \in 1..MaxRequests :
          ErrorAnswered(r) =>
              /\ uploads' = uploads
              /\ importJobs' = importJobs /\ exportJobs' = exportJobs
              /\ itask' = itask /\ etask' = etask]_vars

\* supporting: no job row and no task, whatever becomes of the upload
C39_ErrorLeavesNoJob ==
    [][\A r \in 1..MaxRequests :
          ErrorAnswered(r) =>
              /\ importJobs' = importJobs /\ exportJobs' = exportJobs
              /\ itask' = itask /\ etask' = etask]_vars

\* ------------------------------------------------- successive status reads
\* the counters a status read of job j returns
ReadCounters(response) ==
    <<response.total_records, response.processed_count,
      response.success_count, response.fail_count>>

\* the status read of job j in the state after the step
GetImportAfter(j) ==
    [total_records |-> importJobs'[j].total, processed_count |-> importJobs'[j].processed,
     success_count |-> importJobs'[j].success, fail_count |-> importJobs'[j].fail,
     status |-> importJobs'[j].status]

\* C40 as stated: of two status reads of one import job the later returns
\* total_records, processed_count, success_count and fail_count each at
\* least as large as the earlier
C40_CountersNeverDecrease ==
    [][\A j \in ImportJobIds :
          \A n \in 1..4 :
              ReadCounters(GetImportAfter(j))[n] >= ReadCounters(GetImport(j))[n]]_vars

\* C40 (amended): total_records, processed_count and fail_count never
\* decrease between two status reads; success_count decreases only with the
\* save that completes the job, by at most the number of rows its
\* reconciliation reclassified, fail_count rising by as much
C40_CountersDecreaseOnlyByReconciliation ==
    [][\A j \in ImportJobIds :
          LET before == GetImport(j)
              after == GetImportAfter(j)
          IN  /\ after.total_records >= before.total_records
              /\ after.processed_count >= before.processed_count
              /\ after.fail_count >= before.fail_count
              /\ after.success_count < before.success_count =>
                    /\ before.status = JobStatusProcessing
                    /\ after.status = JobStatusCompleted
                    /\ itask'[j].orphanedCount > 0
                    /\ before.success_count - after.success_count
                          <= itask'[j].orphanedCount
                    /\ after.fail_count - before.fail_count
                          >= before.success_count - after.success_count]_vars

\* a job that had saved the progress of a full batch completed with rows
\* reclassified by its reconciliation
C40_Witness ==
    \E j \in ImportJobIds :
        /\ GetImport(j).status = JobStatusCompleted
        /\ itask[j].batchesProcessed >= 1
        /\ itask[j].orphanedCount > 0
        /\ GetImport(j).success_count < BatchSize
        /\ GetImport(j).processed_count >= BatchSize

====
